---- MODULE Spec2Model ----
(***************************************************************************)
(* Model of the derived-metrics and caching core of src/content.js:        *)
(*   - computeRemainingTransfers (free-transfer simulation)                *)
(*   - mapWithConcurrency (bounded fan-out)                                *)
(*   - scan / scheduleScan (scan serialisation and coalescing)             *)
(*   - the cache-backed loaders (single-flight, failure caching)           *)
(* Each part has its own specification; the variables of the other parts   *)
(* stay at their initial value under it.                                   *)
(***************************************************************************)
EXTENDS Integers, Sequences, FiniteSets, TLC

VARIABLES
  \* computeRemainingTransfers: arguments and return value of one call
  \* (ftLoopEnd is its local ftEndPrev after the loop)
  ftHistoryData, ftEventId, ftCurrentEventData, ftLoopEnd, ftReturn

VARIABLES
  \* one call mapWithConcurrency(items, limit, worker)
  mapItems,      \* the caller's list
  mapLimit,      \* the limit argument
  mapQueue,      \* the local queue
  mapRunners,    \* the runners: what each is doing
  mapCalls,      \* the items the worker was called with, in call order
  mapFinished,   \* the number of worker calls that have ended
  mapSettled     \* the state of the returned promise

VARIABLES
  \* scan / scheduleScan
  pathname,         \* window.location.pathname
  scanInProgress,
  scanQueued,
  scheduledTimer,   \* TRUE when it holds a timer handle, FALSE when null
  scanTimers,       \* the scan timers set by setTimeout that have not fired
  scanPasses,       \* the passes inside the try block of scan: the views left to scan
  initPc,           \* where init() is
  scanOwed,         \* a request was coalesced and no pass has started since
  scanCoalesced     \* requests coalesced into scanQueued during the running pass

VARIABLES
  \* the cache-backed loaders: the module state of src/content.js 24-57
  cache,
  leagueDataCache, leagueDataPending,
  entryHistoryCache, entryHistoryPending,
  entryTransfersCache, entryTransfersPending,
  miniLeagueOwnershipCache, miniLeagueOwnershipPending,
  myCurrentTeamCache, myCurrentTeamPending,
  myEntryId, myEntryIdPending,
  myTeamTransfersCache, myTeamTransfersPending,
  myFreeTransfersMemory,
  myTransfersPageFtCache, myTransfersPageFtPending,
  currentEventId, nextEventId,
  localStorageFt,   \* the stored free-transfer record of localStorage
  pathEntryId,      \* the entry id of window.location.pathname, if any
  navEntryId,       \* the entry id of the navigation link, if any
  tasks,            \* the asynchronous computations started, in start order
  fetchCount,       \* the number of fetches issued per loader and key
  callers           \* the calls made by the scans and the promise each was handed

ftVars == <<ftHistoryData, ftEventId, ftCurrentEventData, ftLoopEnd, ftReturn>>

mapVars == <<mapItems, mapLimit, mapQueue, mapRunners, mapCalls, mapFinished, mapSettled>>

scanVars == <<pathname, scanInProgress, scanQueued, scheduledTimer, scanTimers,
              scanPasses, initPc, scanOwed, scanCoalesced>>

loadVars == <<cache, leagueDataCache, leagueDataPending, entryHistoryCache,
              entryHistoryPending, entryTransfersCache, entryTransfersPending,
              miniLeagueOwnershipCache, miniLeagueOwnershipPending, myCurrentTeamCache,
              myCurrentTeamPending, myEntryId, myEntryIdPending, myTeamTransfersCache,
              myTeamTransfersPending, myFreeTransfersMemory, myTransfersPageFtCache,
              myTransfersPageFtPending, currentEventId, nextEventId, localStorageFt,
              pathEntryId, navEntryId, tasks, fetchCount, callers>>

vars == <<ftVars, mapVars, scanVars, loadVars>>

(***************************************************************************)
(* JavaScript values that may be a number or null / undefined / NaN are    *)
(* records [t, v]: t names the kind, v is the number (0 for the others).   *)
(***************************************************************************)
JsNum(n) == [t |-> "number", v |-> n]
Null == [t |-> "null", v |-> 0]
Undefined == [t |-> "undefined", v |-> 0]
NaN == [t |-> "NaN", v |-> 0]
Unset == [t |-> "unset", v |-> 0]

\* Number.isFinite(x)
IsFinite(x) == x.t = "number"

\* Number(x): null becomes 0, undefined becomes NaN
ToNumber(x) ==
  IF x.t = "number" THEN x ELSE IF x.t = "null" THEN JsNum(0) ELSE NaN

\* a ?? b
Nullish(a, b) == IF a.t = "null" \/ a.t = "undefined" THEN b ELSE a

Min(a, b) == IF a < b THEN a ELSE b
Max(a, b) == IF a > b THEN a ELSE b

\* Math.floor(a / 4) for an integer a (\div rounds towards minus infinity)
FloorDiv4(a) == a \div 4

(***************************************************************************)
(* mapWithConcurrency, src/content.js 607-616                              *)
(***************************************************************************)
MaxItems == 3
MaxLimit == 3
ItemValues == {"a", "b"}

\* const queue = [...items] is a copy: shifting it leaves the caller's list alone
queueAliasesItems == FALSE

\* (a variant that starts one runner per item)
runnerCount_PerItem(limit, n) == n

\* Math.min(limit, queue.length), the number of runners
runnerCount(limit, n) == Min(limit, n)

\* (a variant that takes the items from the end of the queue)
shiftIndex_Last(queue) == Len(queue)

\* queue.shift() takes the first item
shiftIndex(queue) == 1

shiftItem(queue) == queue[shiftIndex(queue)]

shiftRest(queue) ==
  [i \in 1..(Len(queue) - 1) |-> IF i < shiftIndex(queue) THEN queue[i] ELSE queue[i + 1]]

\* runner states
Working(item) == [st |-> "working", item |-> item]
RunnerDone == [st |-> "fulfilled", item |-> ""]
RunnerRejected == [st |-> "rejected", item |-> ""]

\* the runners created by Array.from: each runs until its first await, which
\* is the worker call for the item it shifted (or ends when the queue is empty)
RECURSIVE createRunners(_, _, _, _)
createRunners(k, queue, runners, calls) ==
  IF k = 0 THEN [queue |-> queue, runners |-> runners, calls |-> calls]
  ELSE IF Len(queue) > 0
    THEN createRunners(k - 1, shiftRest(queue),
                       Append(runners, Working(shiftItem(queue))),
                       Append(calls, shiftItem(queue)))
    ELSE createRunners(k - 1, queue, Append(runners, RunnerDone), calls)

\* the state of Promise.all(runners)
promiseAll(runners, before) ==
  IF before # "pending" THEN before
  ELSE IF \E r \in 1..Len(runners) : runners[r].st = "rejected" THEN "rejected"
  ELSE IF \A r \in 1..Len(runners) : runners[r].st = "fulfilled" THEN "resolved"
  ELSE "pending"

MapIdle ==
  /\ mapItems = <<>>
  /\ mapLimit = 0
  /\ mapQueue = <<>>
  /\ mapRunners = <<>>
  /\ mapCalls = <<>>
  /\ mapFinished = 0
  /\ mapSettled = "idle"

\* the call: copies the list, creates the runners, awaits Promise.all
MapWithConcurrency(items, limit) ==
  /\ mapSettled = "idle"
  /\ LET created == createRunners(runnerCount(limit, Len(items)), items, <<>>, <<>>) IN
       /\ mapQueue' = created.queue
       /\ mapRunners' = created.runners
       /\ mapCalls' = created.calls
       /\ mapSettled' = promiseAll(created.runners, "pending")
       /\ mapItems' = IF queueAliasesItems THEN created.queue ELSE items
  /\ mapLimit' = limit
  /\ mapFinished' = 0

\* the worker call of runner r resolves; the runner goes round its loop
WorkerResolves(r) ==
  /\ r \in 1..Len(mapRunners)
  /\ mapRunners[r].st = "working"
  /\ mapFinished' = mapFinished + 1
  /\ IF Len(mapQueue) > 0
       THEN /\ mapRunners' = [mapRunners EXCEPT ![r] = Working(shiftItem(mapQueue))]
            /\ mapCalls' = Append(mapCalls, shiftItem(mapQueue))
            /\ mapQueue' = shiftRest(mapQueue)
       ELSE /\ mapRunners' = [mapRunners EXCEPT ![r] = RunnerDone]
            /\ UNCHANGED <<mapCalls, mapQueue>>
  /\ mapSettled' = promiseAll(mapRunners', mapSettled)
  /\ mapItems' = IF queueAliasesItems THEN mapQueue' ELSE mapItems
  /\ UNCHANGED mapLimit

\* the worker call of runner r rejects; the runner rejects and Promise.all with it
WorkerRejects(r) ==
  /\ r \in 1..Len(mapRunners)
  /\ mapRunners[r].st = "working"
  /\ mapFinished' = mapFinished + 1
  /\ mapRunners' = [mapRunners EXCEPT ![r] = RunnerRejected]
  /\ mapSettled' = promiseAll(mapRunners', mapSettled)
  /\ UNCHANGED <<mapItems, mapLimit, mapQueue, mapCalls>>

(***************************************************************************)
(* scan, scheduleScan and init, src/content.js 66-119, 2037-2099           *)
(***************************************************************************)
MaxCoalesced == 2

Pathnames == {"/my-team", "/transfers", "/leagues/1/standings/c", "/help"}

\* getActiveViews(path): the ids of the views of VIEWS whose matchRoute accepts
\* the path, in the order of VIEWS
getActiveViews(path) ==
  IF path = "/my-team" THEN <<"my-team", "my-team-insights">>
  ELSE IF path = "/transfers" THEN <<"transfers">>
  ELSE IF path = "/leagues/1/standings/c" THEN <<"leagues-standings">>
  ELSE <<>>

\* shouldAttemptScan(): document.body exists and some view matches the path
shouldAttemptScan(path) == Len(getActiveViews(path)) > 0

\* (a variant that sets a new timer although one is pending)
scheduleScan_NoGuard(timer) ==
  [scheduledTimer |-> TRUE, scanTimers |-> timer.scanTimers + 1]

\* scheduleScan(): sets a timer unless scheduledTimer holds one
scheduleScan(timer) ==
  IF timer.scheduledTimer THEN timer
  ELSE [scheduledTimer |-> TRUE, scanTimers |-> timer.scanTimers + 1]

\* (a variant of the check that never finds a pass in progress)
scanBusy_Never(inProgress) == FALSE

\* if (scanInProgress) in scan()
scanBusy(inProgress) == inProgress

\* the finally block of scan(): the new scanQueued and timer
scanFinally(queued, timer) ==
  IF queued
    THEN [scanQueued |-> FALSE, timer |-> scheduleScan(timer)]
    ELSE [scanQueued |-> queued, timer |-> timer]

timerNow == [scheduledTimer |-> scheduledTimer, scanTimers |-> scanTimers]

ScanIdle ==
  /\ pathname = "/help"
  /\ scanInProgress = FALSE
  /\ scanQueued = FALSE
  /\ scheduledTimer = FALSE
  /\ scanTimers = 0
  /\ scanPasses = <<>>
  /\ initPc = "idle"
  /\ scanOwed = FALSE
  /\ scanCoalesced = 0

\* the content script has started: init() awaits loadBootstrap()
InitScanPart ==
  /\ pathname \in Pathnames
  /\ scanInProgress = FALSE
  /\ scanQueued = FALSE
  /\ scheduledTimer = FALSE
  /\ scanTimers = 0
  /\ scanPasses = <<>>
  /\ initPc = "loadBootstrap"
  /\ scanOwed = FALSE
  /\ scanCoalesced = 0

\* scan() from its entry to its first await or return, called with the timer
\* state `timer`
ScanCalled(timer) ==
  IF ~shouldAttemptScan(pathname)
    THEN \* return; a re-run that was waiting for this call is dropped
         /\ scheduledTimer' = timer.scheduledTimer
         /\ scanTimers' = timer.scanTimers
         /\ scanOwed' = scanQueued
         /\ UNCHANGED <<scanInProgress, scanQueued, scanPasses, scanCoalesced>>
  ELSE IF scanBusy(scanInProgress)
    THEN /\ scanQueued' = TRUE
         /\ scanOwed' = TRUE
         /\ scanCoalesced' = Min(scanCoalesced + 1, MaxCoalesced)
         /\ scheduledTimer' = timer.scheduledTimer
         /\ scanTimers' = timer.scanTimers
         /\ UNCHANGED <<scanInProgress, scanPasses>>
  ELSE IF Len(getActiveViews(pathname)) = 0
    THEN \* scanInProgress = true; return through finally
         LET fin == scanFinally(scanQueued, timer) IN
         /\ scanInProgress' = FALSE
         /\ scanQueued' = fin.scanQueued
         /\ scheduledTimer' = fin.timer.scheduledTimer
         /\ scanTimers' = fin.timer.scanTimers
         /\ scanOwed' = FALSE
         /\ scanCoalesced' = 0
         /\ UNCHANGED scanPasses
  ELSE \* scanInProgress = true; await the scan of the first view
         /\ scanInProgress' = TRUE
         /\ scanPasses' = Append(scanPasses, getActiveViews(pathname))
         /\ scanOwed' = FALSE
         /\ scanCoalesced' = 0
         /\ scheduledTimer' = timer.scheduledTimer
         /\ scanTimers' = timer.scanTimers
         /\ UNCHANGED scanQueued

\* the MutationObserver callback, or one of the two start-up timers: scheduleScan()
ScheduleScanRequested ==
  /\ initPc # "idle"
  /\ LET t == scheduleScan(timerNow) IN
       /\ scheduledTimer' = t.scheduledTimer
       /\ scanTimers' = t.scanTimers
  /\ UNCHANGED <<pathname, scanInProgress, scanQueued, scanPasses, initPc,
                 scanOwed, scanCoalesced>>

\* a scan timer fires: scheduledTimer = null; await scan()
ScanTimerFires ==
  /\ scanTimers > 0
  /\ ScanCalled([scheduledTimer |-> FALSE, scanTimers |-> scanTimers - 1])
  /\ UNCHANGED <<pathname, initPc>>

\* init(): loadBootstrap() has ended; await scan()
InitCallsScan ==
  /\ initPc = "loadBootstrap"
  /\ initPc' = "scan"
  /\ ScanCalled(timerNow)
  /\ UNCHANGED pathname

RemoveAt(seq, i) == [j \in 1..(Len(seq) - 1) |-> IF j < i THEN seq[j] ELSE seq[j + 1]]

\* the finally block of pass p
PassEnds(p) ==
  LET fin == scanFinally(scanQueued, timerNow) IN
  /\ scanPasses' = RemoveAt(scanPasses, p)
  /\ scanInProgress' = FALSE
  /\ scanQueued' = fin.scanQueued
  /\ scheduledTimer' = fin.timer.scheduledTimer
  /\ scanTimers' = fin.timer.scanTimers

\* the view scan that pass p awaits resolves: the next view, or the end of the pass
ViewScanResolves(p) ==
  /\ p \in 1..Len(scanPasses)
  /\ IF Len(scanPasses[p]) > 1
       THEN /\ scanPasses' = [scanPasses EXCEPT ![p] = Tail(scanPasses[p])]
            /\ UNCHANGED <<scanInProgress, scanQueued, scheduledTimer, scanTimers>>
       ELSE PassEnds(p)
  /\ UNCHANGED <<pathname, initPc, scanOwed, scanCoalesced>>

\* the view scan that pass p awaits throws: the pass ends through finally
ViewScanThrows(p) ==
  /\ p \in 1..Len(scanPasses)
  /\ PassEnds(p)
  /\ UNCHANGED <<pathname, initPc, scanOwed, scanCoalesced>>

\* the single-page application changes the route
Navigate(path) ==
  /\ initPc # "idle"
  /\ path # pathname
  /\ pathname' = path
  /\ UNCHANGED <<scanInProgress, scanQueued, scheduledTimer, scanTimers, scanPasses,
                 initPc, scanOwed, scanCoalesced>>

(***************************************************************************)
(* computeRemainingTransfers, src/content.js 1457-1542                     *)
(***************************************************************************)
\* bounds of the inputs
MaxGw == 6
MaxRows == 1
MaxChips == 1

FT_CAP == 5

RowTransfers == {0, 1, 2}
RowCosts == {0, 4}
LogChipNames == {"wildcard", "freehit", "bboost"}
LiveChipNames == {"", "wildcard", "3xc"}
LiveTransfers == {0, 1, 2}
LiveCosts == {0, 4, 7}

isWildcardChip(name) == name = "wc" \/ name \in {"wildcard"}

\* (a variant that does not know the free hit)
isFreeHitChip_Never(name) == FALSE

isFreeHitChip(name) == name = "fh" \/ name \in {"freehit", "free_hit"}

\* historyData?.current / historyData?.chips, [] when historyData is null
currentRowsOf(historyData) ==
  IF historyData.isNull THEN <<>> ELSE historyData.current

chipsOf(historyData) ==
  IF historyData.isNull THEN <<>> ELSE historyData.chips

\* rowByEvent.has(ev)
rowByEventHas(rows, ev) == \E i \in 1..Len(rows) : rows[i].event = ev

\* rowByEvent.get(ev): the last row of the list with that event
rowByEvent(rows, ev) ==
  LET last == CHOOSE i \in 1..Len(rows) :
                /\ rows[i].event = ev
                /\ \A j \in (i + 1)..Len(rows) : rows[j].event # ev
  IN rows[last]

\* chipByEvent.get(ev) || "": the name of the last chip of the log with that event
chipByEvent(chips, ev) ==
  IF \E i \in 1..Len(chips) : chips[i].event = ev
    THEN LET last == CHOOSE i \in 1..Len(chips) :
                       /\ chips[i].event = ev
                       /\ \A j \in (i + 1)..Len(chips) : chips[j].event # ev
         IN chips[last].name
    ELSE ""

\* (a variant that lets the bank grow without the cap)
ftStartOf_NoCap(ev, ftEndPrev) == IF ev = 1 THEN 1 ELSE ftEndPrev + 1

\* ftStart of a gameweek
ftStartOf(ev, ftEndPrev) == IF ev = 1 THEN 1 ELSE Min(FT_CAP, ftEndPrev + 1)

\* chipRaw of gameweek ev: activeChipRaw || chipByEvent.get(ev) || "" for the
\* target gameweek, chipByEvent.get(ev) || "" for the others
chipOfEvent(historyData, targetEvent, currentEventData, ev) ==
  LET logged == chipByEvent(chipsOf(historyData), ev) IN
  IF ev = targetEvent /\ currentEventData.activeChipRaw # ""
    THEN currentEventData.activeChipRaw
    ELSE logged

\* (a variant that counts one transfer for a gameweek without a history row)
transfersOfEvent_MissingRowOne(historyData, targetEvent, currentEventData, ev) ==
  LET rows == currentRowsOf(historyData) IN
  IF ev = targetEvent THEN currentEventData.eventTransfers
  ELSE IF rowByEventHas(rows, ev) THEN rowByEvent(rows, ev).event_transfers
  ELSE 1

\* transfers of gameweek ev: eventTransfers ?? row?.event_transfers ?? 0 for the
\* target gameweek (the caller always passes a number), the row's otherwise
transfersOfEvent(historyData, targetEvent, currentEventData, ev) ==
  LET rows == currentRowsOf(historyData) IN
  IF ev = targetEvent THEN currentEventData.eventTransfers
  ELSE IF rowByEventHas(rows, ev) THEN rowByEvent(rows, ev).event_transfers
  ELSE 0

costOfEvent(historyData, targetEvent, currentEventData, ev) ==
  LET rows == currentRowsOf(historyData) IN
  IF ev = targetEvent THEN currentEventData.eventTransfersCost
  ELSE IF rowByEventHas(rows, ev) THEN rowByEvent(rows, ev).event_transfers_cost
  ELSE 0

\* (a variant in which no transfer counts as paid)
paidTransfersOf_None(transferCost) == 0

paidTransfersOf(transferCost) == Max(0, FloorDiv4(transferCost))

\* (a variant in which paid transfers draw on the bank too)
freeTransfersUsedOf_IgnorePaid(transfers, transferCost) == Max(0, transfers)

freeTransfersUsedOf(transfers, transferCost) ==
  Max(0, transfers - paidTransfersOf(transferCost))

\* one iteration of the loop: the new ftEndPrev
ftEndOfEvent(historyData, targetEvent, currentEventData, ev, ftEndPrev) ==
  LET ftStart == ftStartOf(ev, ftEndPrev)
      chip == chipOfEvent(historyData, targetEvent, currentEventData, ev)
      transfers == transfersOfEvent(historyData, targetEvent, currentEventData, ev)
      transferCost == costOfEvent(historyData, targetEvent, currentEventData, ev)
  IN IF isWildcardChip(chip) THEN ftStart
     ELSE IF isFreeHitChip(chip) THEN ftStart
     ELSE Max(0, ftStart - freeTransfersUsedOf(transfers, transferCost))

\* the loop for (ev = 1; ev <= targetEvent; ev += 1): ftEndPrev after gameweek upTo
RECURSIVE ftEndAfter(_, _, _, _)
ftEndAfter(historyData, targetEvent, currentEventData, upTo) ==
  IF upTo < 1 THEN 1
  ELSE ftEndOfEvent(historyData, targetEvent, currentEventData, upTo,
                    ftEndAfter(historyData, targetEvent, currentEventData, upTo - 1))

\* (a variant without the fallback guard)
staleGuardApplies_Never(targetEvent, currentEventData, ftEndPrev) == FALSE

\* (a variant in which the guard does not look at the transfers used)
staleGuardApplies_AnyUse(targetEvent, currentEventData, ftEndPrev) ==
  /\ targetEvent > 1
  /\ currentEventData.eventTransfers > 0
  /\ currentEventData.eventTransfersCost >= 0
  /\ ftEndPrev = 0

\* the fallback guard after the loop
staleGuardApplies(targetEvent, currentEventData, ftEndPrev) ==
  /\ targetEvent > 1
  /\ currentEventData.eventTransfers > 0
  /\ currentEventData.eventTransfersCost >= 0
  /\ ftEndPrev = 0
  /\ LET currentTransfers == Max(0, currentEventData.eventTransfers)
         currentPaid == Max(0, FloorDiv4(currentEventData.eventTransfersCost))
         currentFreeUsed == Max(0, currentTransfers - currentPaid)
     IN currentFreeUsed <= 1

\* ftEndPrev when the loop has ended (unset when the function returned before it)
loopResult(historyData, eventId, currentEventData) ==
  LET targetEvent == ToNumber(eventId) IN
  IF ~IsFinite(targetEvent) \/ targetEvent.v < 1 THEN Unset
  ELSE JsNum(ftEndAfter(historyData, targetEvent.v, currentEventData, targetEvent.v))

\* the return value, null or a number
computeRemainingTransfers(historyData, eventId, currentEventData) ==
  LET targetEvent == ToNumber(eventId) IN
  IF ~IsFinite(targetEvent) \/ targetEvent.v < 1 THEN Null
  ELSE LET ftEndPrev == ftEndAfter(historyData, targetEvent.v, currentEventData, targetEvent.v) IN
       IF staleGuardApplies(targetEvent.v, currentEventData, ftEndPrev) THEN JsNum(1)
       ELSE JsNum(ftEndPrev)

\* historyData when the history could not be loaded
NullHistory == [isNull |-> TRUE, current |-> <<>>, chips |-> <<>>]

(***************************************************************************)
(* The cache-backed loaders, src/content.js 263-378, 750-940, 1046-1281,   *)
(* 1408-1455, 1544-1680.                                                   *)
(* A started asynchronous computation is an element of tasks; a promise is *)
(* [tid, val]: tid = 0 for a promise that is resolved with val, else the   *)
(* index of the task whose result it takes.  Map keys are pairs <<a, b>>.  *)
(***************************************************************************)
MaxCalls == 2
MaxEntries == 1
MaxEvent == 2

Entries == 1..MaxEntries
Events == 1..MaxEvent

MANUAL_MY_REMAINING_FT == 2

NA == [t |-> "n/a", v |-> 0]
DefaultKey == [t |-> "default", v |-> 0]

EmptyMap == [k \in {} |-> 0]
Has(m, k) == k \in DOMAIN m
MapSet(m, k, val) == [x \in DOMAIN m \cup {k} |-> IF x = k THEN val ELSE m[x]]
MapDelete(m, k) == [x \in DOMAIN m \ {k} |-> m[x]]
MapGetOr(m, k, dflt) == IF Has(m, k) THEN m[k] ELSE dflt

Resolved(val) == [tid |-> 0, val |-> val]
PromiseOf(tid) == [tid |-> tid, val |-> Null]

NoBest == [isNull |-> TRUE, limit |-> 0, made |-> 0, remaining |-> 0]
Best(limit, made) ==
  [isNull |-> FALSE, limit |-> limit, made |-> made, remaining |-> Max(0, limit - made)]

NoPicks == [captain |-> "", active_chip |-> "", event_transfers |-> 0, event_transfers_cost |-> 0]

NewTask(fn, key, pc) ==
  [fn |-> fn, key |-> key, pc |-> pc, done |-> FALSE, failed |-> FALSE, res |-> Null,
   aw |-> <<>>, picks |-> "none", data |-> NoPicks, own |-> FALSE,
   urls |-> <<>>, best |-> NoBest, cacheKey |-> DefaultKey,
   myId |-> Undefined, page |-> 0, out |-> <<>>,
   queue |-> <<>>, inflight |-> <<>>, successful |-> <<>>,
   playerOwnershipMap |-> EmptyMap, rivalTeamsMap |-> EmptyMap, hist |-> <<>>]

\* the program state the loaders read and write
LoaderState ==
  [tasks |-> tasks, fetchCount |-> fetchCount, cache |-> cache,
   miniLeagueOwnershipCache |-> miniLeagueOwnershipCache,
   miniLeagueOwnershipPending |-> miniLeagueOwnershipPending,
   myCurrentTeamCache |-> myCurrentTeamCache, myCurrentTeamPending |-> myCurrentTeamPending,
   leagueDataCache |-> leagueDataCache, leagueDataPending |-> leagueDataPending,
   entryHistoryCache |-> entryHistoryCache, entryHistoryPending |-> entryHistoryPending,
   entryTransfersCache |-> entryTransfersCache, entryTransfersPending |-> entryTransfersPending,
   myEntryId |-> myEntryId, myEntryIdPending |-> myEntryIdPending,
   myTeamTransfersCache |-> myTeamTransfersCache,
   myTeamTransfersPending |-> myTeamTransfersPending,
   myFreeTransfersMemory |-> myFreeTransfersMemory,
   myTransfersPageFtCache |-> myTransfersPageFtCache,
   myTransfersPageFtPending |-> myTransfersPageFtPending,
   localStorageFt |-> localStorageFt]

SetLoaderState(S) ==
  /\ tasks' = S.tasks
  /\ fetchCount' = S.fetchCount
  /\ cache' = S.cache
  /\ miniLeagueOwnershipCache' = S.miniLeagueOwnershipCache
  /\ miniLeagueOwnershipPending' = S.miniLeagueOwnershipPending
  /\ myCurrentTeamCache' = S.myCurrentTeamCache
  /\ myCurrentTeamPending' = S.myCurrentTeamPending
  /\ leagueDataCache' = S.leagueDataCache
  /\ leagueDataPending' = S.leagueDataPending
  /\ entryHistoryCache' = S.entryHistoryCache
  /\ entryHistoryPending' = S.entryHistoryPending
  /\ entryTransfersCache' = S.entryTransfersCache
  /\ entryTransfersPending' = S.entryTransfersPending
  /\ myEntryId' = S.myEntryId
  /\ myEntryIdPending' = S.myEntryIdPending
  /\ myTeamTransfersCache' = S.myTeamTransfersCache
  /\ myTeamTransfersPending' = S.myTeamTransfersPending
  /\ myFreeTransfersMemory' = S.myFreeTransfersMemory
  /\ myTransfersPageFtCache' = S.myTransfersPageFtCache
  /\ myTransfersPageFtPending' = S.myTransfersPageFtPending
  /\ localStorageFt' = S.localStorageFt

addTask(S, t) == [S EXCEPT !.tasks = Append(@, t)]

\* fetch(url) by loader fn for key: counted per loader and key
countFetch(S, fn, key) ==
  [S EXCEPT !.fetchCount = MapSet(@, <<fn, key>>, MapGetOr(@, <<fn, key>>, 0) + 1)]

finishTask(S, tid, res, failed) ==
  [S EXCEPT !.tasks[tid].done = TRUE, !.tasks[tid].pc = "done",
            !.tasks[tid].res = res, !.tasks[tid].failed = failed]

settled(S, p) == IF p.tid = 0 THEN TRUE ELSE S.tasks[p.tid].done
valueOf(S, p) == IF p.tid = 0 THEN p.val ELSE S.tasks[p.tid].res
allSettled(S, ps) == \A i \in 1..Len(ps) : settled(S, ps[i])

\* (a variant of the pending check that never finds a computation in flight)
inFlight_Never(pending, key) == FALSE

\* xPending.has(key)
inFlight(pending, key) == Has(pending, key)

\* (a variant that leaves the cache alone when the computation failed)
storeFailure_Skip(cacheMap, key, sentinel) == cacheMap

\* xCache.set(key, sentinel) in a catch block or failure branch
storeFailure(cacheMap, key, sentinel) == MapSet(cacheMap, key, sentinel)

(***************************************************************************)
(* loadEntryHistory, loadEntryTransfers: 1408-1455                         *)
(***************************************************************************)
loadEntryHistory(S, entryId) ==
  LET key == <<entryId, 0>> IN
  IF Has(S.entryHistoryCache, key)
    THEN [S |-> S, p |-> Resolved(S.entryHistoryCache[key])]
  ELSE IF inFlight(S.entryHistoryPending, key)
    THEN [S |-> S, p |-> PromiseOf(S.entryHistoryPending[key])]
  ELSE LET S1 == countFetch(addTask(S, NewTask("loadEntryHistory", key, "fetch")),
                            "loadEntryHistory", key)
           tid == Len(S1.tasks)
       IN [S |-> [S1 EXCEPT !.entryHistoryPending = MapSet(@, key, tid)],
           p |-> PromiseOf(tid)]

\* the fetch of task tid has settled: outcome "ok" with payload data, or
\* "http" (non-2xx), "reject" (network) or "parse" (res.json() throws)
settleEntryHistory(S, tid, outcome, data) ==
  LET key == S.tasks[tid].key
      S1 == IF outcome = "ok"
              THEN finishTask([S EXCEPT !.entryHistoryCache = MapSet(@, key, data)],
                              tid, data, FALSE)
              ELSE finishTask([S EXCEPT !.entryHistoryCache = storeFailure(@, key, NullHistory)],
                              tid, NullHistory, TRUE)
  IN [S1 EXCEPT !.entryHistoryPending = MapDelete(@, key)]

loadEntryTransfers(S, entryId) ==
  LET key == <<entryId, 0>> IN
  IF Has(S.entryTransfersCache, key)
    THEN [S |-> S, p |-> Resolved(S.entryTransfersCache[key])]
  ELSE IF inFlight(S.entryTransfersPending, key)
    THEN [S |-> S, p |-> PromiseOf(S.entryTransfersPending[key])]
  ELSE LET S1 == countFetch(addTask(S, NewTask("loadEntryTransfers", key, "fetch")),
                            "loadEntryTransfers", key)
           tid == Len(S1.tasks)
       IN [S |-> [S1 EXCEPT !.entryTransfersPending = MapSet(@, key, tid)],
           p |-> PromiseOf(tid)]

\* outcome "ok" with an array data; a body that is no array gives [] as well
settleEntryTransfers(S, tid, outcome, data) ==
  LET key == S.tasks[tid].key
      S1 == IF outcome = "ok"
              THEN finishTask([S EXCEPT !.entryTransfersCache = MapSet(@, key, data)],
                              tid, data, FALSE)
              ELSE finishTask([S EXCEPT !.entryTransfersCache = storeFailure(@, key, <<>>)],
                              tid, <<>>, TRUE)
  IN [S1 EXCEPT !.entryTransfersPending = MapDelete(@, key)]

(***************************************************************************)
(* getCachedMyFreeTransfers, getMyEntryIdFromNav/Path, loadMyEntryId:      *)
(* 1046-1063, 1168-1230                                                    *)
(***************************************************************************)
NoStoredFt == [present |-> FALSE, value |-> 0, entryId |-> Null]

\* getCachedMyFreeTransfers(): null, or the stored value with the entry id read
\* back by Number(parsed?.entryId), which is 0 for a stored null
getCachedMyFreeTransfers(S) ==
  IF ~S.localStorageFt.present
    THEN [isNull |-> TRUE, value |-> 0, entryId |-> Null]
    ELSE LET entryId == ToNumber(S.localStorageFt.entryId) IN
         [isNull |-> FALSE, value |-> S.localStorageFt.value,
          entryId |-> IF IsFinite(entryId) THEN entryId ELSE Null]

\* getMyEntryIdFromPath(): the entry id of window.location.pathname
getMyEntryIdFromPath(S) ==
  IF IsFinite(S.myEntryId) THEN [S |-> S, ret |-> S.myEntryId]
  ELSE IF IsFinite(pathEntryId)
    THEN [S |-> [S EXCEPT !.myEntryId = pathEntryId], ret |-> pathEntryId]
    ELSE [S |-> S, ret |-> Null]

\* (a variant that never finds the navigation link)
getMyEntryIdFromNav_NoLink(S) == [S |-> S, ret |-> S.myEntryId]

\* getMyEntryIdFromNav(): the entry id of the navigation link
getMyEntryIdFromNav(S) ==
  IF IsFinite(S.myEntryId) THEN [S |-> S, ret |-> S.myEntryId]
  ELSE IF IsFinite(navEntryId)
    THEN [S |-> [S EXCEPT !.myEntryId = navEntryId], ret |-> navEntryId]
    ELSE [S |-> S, ret |-> Null]

\* (a variant that remembers the value only after it has been stored)
setCachedMyFreeTransfers_AfterStore(S, value, storage) ==
  IF ~IsFinite(ToNumber(value)) \/ storage # "ok" THEN S
  ELSE LET nav == getMyEntryIdFromNav(S)
           myId == ToNumber(nav.ret)
       IN [nav.S EXCEPT !.myFreeTransfersMemory = ToNumber(value),
                        !.localStorageFt =
                          [present |-> TRUE, value |-> ToNumber(value).v,
                           entryId |-> IF IsFinite(myId) THEN myId ELSE Null]]

\* setCachedMyFreeTransfers(value); storage tells whether localStorage.setItem
\* returns ("ok") or throws ("throws").  The entry id is taken with
\* getMyEntryIdFromNav() before the write is attempted, and Number(null) is 0.
setCachedMyFreeTransfers(S, value, storage) ==
  IF ~IsFinite(ToNumber(value)) THEN S
  ELSE LET S1 == [S EXCEPT !.myFreeTransfersMemory = ToNumber(value)]
           nav == getMyEntryIdFromNav(S1)
           myId == ToNumber(nav.ret)
       IN IF storage = "ok"
            THEN [nav.S EXCEPT !.localStorageFt =
                    [present |-> TRUE, value |-> ToNumber(value).v,
                     entryId |-> IF IsFinite(myId) THEN myId ELSE Null]]
            ELSE nav.S

\* the async function of loadMyEntryId returned without awaiting: its finally
\* block runs before the caller stores the promise in myEntryIdPending
myEntryIdReturned(S, val) ==
  LET S1 == addTask(S, [NewTask("loadMyEntryId", <<0, 0>>, "done")
                          EXCEPT !.done = TRUE, !.res = val])
  IN [S |-> [S1 EXCEPT !.myEntryIdPending = Len(S1.tasks)],
      p |-> PromiseOf(Len(S1.tasks))]

loadMyEntryId(S) ==
  IF IsFinite(S.myEntryId) THEN [S |-> S, p |-> Resolved(S.myEntryId)]
  ELSE IF S.myEntryIdPending # 0 THEN [S |-> S, p |-> PromiseOf(S.myEntryIdPending)]
  ELSE LET fromPath == getMyEntryIdFromPath(S) IN
    IF IsFinite(fromPath.ret) THEN myEntryIdReturned(fromPath.S, fromPath.ret)
    ELSE LET fromNav == getMyEntryIdFromNav(fromPath.S) IN
      IF IsFinite(fromNav.ret) THEN myEntryIdReturned(fromNav.S, fromNav.ret)
      ELSE LET cachedFt == getCachedMyFreeTransfers(fromNav.S)
               cachedEntryId == IF cachedFt.isNull THEN NaN ELSE ToNumber(cachedFt.entryId)
           IN IF IsFinite(cachedEntryId)
                THEN myEntryIdReturned([fromNav.S EXCEPT !.myEntryId = cachedEntryId],
                                       cachedEntryId)
                ELSE LET S1 == countFetch(addTask(fromNav.S,
                                            NewTask("loadMyEntryId", <<0, 0>>, "fetch")),
                                          "loadMyEntryId", <<0, 0>>)
                     IN [S |-> [S1 EXCEPT !.myEntryIdPending = Len(S1.tasks)],
                         p |-> PromiseOf(Len(S1.tasks))]

\* the /me fetch has settled; playerEntry is data?.player?.entry and entry is
\* data?.entry of an "ok" response
settleMyEntryId(S, tid, outcome, playerEntry, entry) ==
  LET fromPlayer == ToNumber(playerEntry)
      fromEntry == ToNumber(entry)
      resolved == IF IsFinite(fromPlayer) THEN fromPlayer
                  ELSE IF IsFinite(fromEntry) THEN fromEntry ELSE Null
      S1 == IF outcome = "ok" /\ IsFinite(resolved)
              THEN [S EXCEPT !.myEntryId = resolved] ELSE S
      ret == IF outcome = "ok" /\ IsFinite(S1.myEntryId) THEN S1.myEntryId ELSE Null
  IN [finishTask(S1, tid, ret, outcome # "ok") EXCEPT !.myEntryIdPending = 0]

(***************************************************************************)
(* loadMyFreeTransfersFromTransfersHtml, loadMyTeamTransfers: 1123-1166,   *)
(* 1232-1281                                                               *)
(***************************************************************************)
loadMyFreeTransfersFromTransfersHtml(S) ==
  IF IsFinite(ToNumber(S.myTransfersPageFtCache))
    THEN [S |-> S, p |-> Resolved(ToNumber(S.myTransfersPageFtCache))]
  ELSE IF S.myTransfersPageFtPending # 0
    THEN [S |-> S, p |-> PromiseOf(S.myTransfersPageFtPending)]
  ELSE LET S1 == countFetch(addTask(S, NewTask("loadMyFreeTransfersFromTransfersHtml",
                                              <<0, 0>>, "fetch")),
                            "loadMyFreeTransfersFromTransfersHtml", <<0, 0>>)
       IN [S |-> [S1 EXCEPT !.myTransfersPageFtPending = Len(S1.tasks)],
           p |-> PromiseOf(Len(S1.tasks))]

\* the cache key of a hint: String(eventIdHint) when Number(eventIdHint) is
\* finite (null counts as 0), else "default"
myTeamCacheKey(eventIdHint) ==
  IF IsFinite(ToNumber(eventIdHint)) THEN eventIdHint ELSE DefaultKey

\* the value of the key that loadMyTeamTransfers files its fetches under
myTeamKey(entryId, eventIdHint) ==
  <<entryId, IF IsFinite(eventIdHint) THEN eventIdHint.v ELSE 0>>

loadMyTeamTransfers(S, entryId, eventIdHint) ==
  LET cacheKey == myTeamCacheKey(eventIdHint) IN
  IF Has(S.myTeamTransfersCache, cacheKey) /\ ~S.myTeamTransfersCache[cacheKey].isNull
    THEN [S |-> S, p |-> Resolved(S.myTeamTransfersCache[cacheKey])]
  ELSE IF S.myTeamTransfersPending # 0
    THEN [S |-> S, p |-> PromiseOf(S.myTeamTransfersPending)]
  ELSE LET urls == IF IsFinite(ToNumber(eventIdHint)) THEN <<"event", "default">>
                   ELSE <<"default">>
           task == [NewTask("loadMyTeamTransfers", myTeamKey(entryId, eventIdHint), "fetch")
                      EXCEPT !.urls = urls, !.cacheKey = cacheKey]
           S1 == countFetch(addTask(S, task), "loadMyTeamTransfers",
                            myTeamKey(entryId, eventIdHint))
       IN [S |-> [S1 EXCEPT !.myTeamTransfersPending = Len(S1.tasks)],
           p |-> PromiseOf(Len(S1.tasks))]

\* a fetch of the url loop has settled: "ok" with limit and made, "http",
\* "fields" (limit or made is no number) or "reject"
settleMyTeamTransfers(S, tid, outcome, limit, made) ==
  LET t == S.tasks[tid]
      found == Best(limit, made)
      best == IF outcome = "ok" /\ (t.best.isNull \/ found.remaining > t.best.remaining)
                THEN found ELSE t.best
  IN IF outcome = "reject"
       THEN [finishTask([S EXCEPT !.myTeamTransfersCache = MapSet(@, t.cacheKey, NoBest)],
                        tid, NoBest, TRUE)
               EXCEPT !.myTeamTransfersPending = 0]
     ELSE IF Len(t.urls) > 1
       THEN countFetch([S EXCEPT !.tasks[tid].urls = Tail(@), !.tasks[tid].best = best],
                       "loadMyTeamTransfers", t.key)
     ELSE [finishTask([S EXCEPT !.myTeamTransfersCache = MapSet(@, t.cacheKey, best)],
                      tid, best, best.isNull)
             EXCEPT !.myTeamTransfersPending = 0]

(***************************************************************************)
(* loadEntryLeagueData, formatChip: 1544-1697                              *)
(***************************************************************************)
formatChip(rawChip) ==
  IF rawChip = "" THEN "none"
  ELSE IF rawChip = "3xc" THEN "TC"
  ELSE IF rawChip = "bboost" THEN "BB"
  ELSE IF rawChip = "freehit" THEN "FH"
  ELSE IF rawChip = "wildcard" THEN "WC"
  ELSE IF rawChip = "manager" THEN "AM"
  ELSE rawChip

\* the row of the catch block
NaRow ==
  [captain |-> "n/a", chip |-> "none", transferCost |-> 0, transfersMade |-> 0,
   remainingTransfers |-> NA, transferLines |-> <<>>]

loadEntryLeagueData(S, entryId, eventId) ==
  LET key == <<entryId, eventId>> IN
  IF Has(S.leagueDataCache, key)
    THEN [S |-> S, p |-> Resolved(S.leagueDataCache[key])]
  ELSE IF inFlight(S.leagueDataPending, key)
    THEN [S |-> S, p |-> PromiseOf(S.leagueDataPending[key])]
  ELSE LET S1 == addTask(S, NewTask("loadEntryLeagueData", key, "awaitMyEntryId"))
           tid == Len(S1.tasks)
           me == loadMyEntryId(S1)
       IN [S |-> [me.S EXCEPT !.tasks[tid].aw = <<me.p>>,
                              !.leagueDataPending = MapSet(@, key, tid)],
           p |-> PromiseOf(tid)]

\* loadMyEntryId() has settled: the six operands of Promise.all are evaluated
leagueStartAll(S, tid) ==
  LET t == S.tasks[tid]
      entryId == t.key[1]
      eventId == t.key[2]
      localMyEntryId == valueOf(S, t.aw[1])
      shouldLoadMyTeam == ToNumber(localMyEntryId) = JsNum(entryId)
      S1 == countFetch(S, "loadEntryLeagueData", t.key)
      hist == loadEntryHistory(S1, entryId)
      trans == loadEntryTransfers(hist.S, entryId)
      cur == IF shouldLoadMyTeam THEN loadMyTeamTransfers(trans.S, entryId, JsNum(eventId))
             ELSE [S |-> trans.S, p |-> Resolved(NoBest)]
      next == IF shouldLoadMyTeam /\ IsFinite(ToNumber(nextEventId))
                THEN loadMyTeamTransfers(cur.S, entryId, nextEventId)
                ELSE [S |-> cur.S, p |-> Resolved(NoBest)]
      html == IF shouldLoadMyTeam THEN loadMyFreeTransfersFromTransfersHtml(next.S)
              ELSE [S |-> next.S, p |-> Resolved(Null)]
  IN [html.S EXCEPT !.tasks[tid].aw = <<hist.p, trans.p, cur.p, next.p, html.p>>,
                    !.tasks[tid].picks = "pending",
                    !.tasks[tid].own = shouldLoadMyTeam,
                    !.tasks[tid].pc = "awaitAll"]

\* the catch block and the finally block
leagueFailed(S, tid) ==
  LET key == S.tasks[tid].key IN
  [finishTask([S EXCEPT !.leagueDataCache = storeFailure(@, key, NaRow)], tid, NaRow, TRUE)
     EXCEPT !.leagueDataPending = MapDelete(@, key)]

\* the largest finite element of a list of candidates, -1 when there is none
RECURSIVE maxFinite(_)
maxFinite(cands) ==
  IF cands = <<>> THEN -1
  ELSE IF IsFinite(Head(cands)) THEN Max(Head(cands).v, maxFinite(Tail(cands)))
  ELSE maxFinite(Tail(cands))

\* (a variant that keeps a 0 whatever transfers were made)
safeCandidate_KeepZero(ignoreZeroFromFallbacks, x) == x

\* safeCur, safeNext, ...: a candidate that is exactly 0 becomes null when
\* transfers were made
safeCandidate(ignoreZeroFromFallbacks, x) ==
  IF ignoreZeroFromFallbacks /\ x = JsNum(0) THEN Null ELSE x

\* the list handed to filter/reduce for the own entry, lines 1584-1621:
\* manual, current, next, projected, memory, persisted, page, simulation
mergeCandidates(S, t, remainingTransfers) ==
  LET entryId == t.key[1]
      shouldLoadMyTeam == t.own
      transfersMade == t.data.event_transfers
      myTeamCurrent == valueOf(S, t.aw[3])
      myTeamNext == valueOf(S, t.aw[4])
      htmlFt == valueOf(S, t.aw[5])
      exactRemainingCurrent ==
        IF ~myTeamCurrent.isNull THEN JsNum(myTeamCurrent.remaining) ELSE Null
      exactRemainingNext ==
        IF ~myTeamNext.isNull THEN JsNum(myTeamNext.remaining) ELSE Null
      exactRemainingProjected ==
        IF IsFinite(exactRemainingCurrent)
          THEN JsNum(Min(5, Max(0, exactRemainingCurrent.v + 1))) ELSE Null
      calcRemaining == remainingTransfers
      cachedFt == getCachedMyFreeTransfers(S)
      memoryRemaining ==
        IF shouldLoadMyTeam /\ IsFinite(ToNumber(S.myFreeTransfersMemory))
          THEN ToNumber(S.myFreeTransfersMemory) ELSE Null
      cachedRemaining ==
        IF /\ shouldLoadMyTeam
           /\ ~cachedFt.isNull
           /\ (cachedFt.entryId = Null \/ ToNumber(cachedFt.entryId) = JsNum(entryId))
          THEN JsNum(cachedFt.value) ELSE Null
      htmlRemaining == IF IsFinite(ToNumber(htmlFt)) THEN ToNumber(htmlFt) ELSE Null
      manualRemaining == IF shouldLoadMyTeam THEN JsNum(MANUAL_MY_REMAINING_FT) ELSE Null
      ignoreZeroFromFallbacks == transfersMade > 0
      safe(x) == safeCandidate(ignoreZeroFromFallbacks, x)
  IN <<manualRemaining, safe(exactRemainingCurrent), safe(exactRemainingNext),
       safe(exactRemainingProjected), safe(memoryRemaining),
       safe(cachedRemaining), safe(htmlRemaining), calcRemaining>>

\* (a variant of the merge that takes the first candidate there is)
mergedRemainingOf_FirstWins(S, t, remainingTransfers) ==
  LET cands == mergeCandidates(S, t, remainingTransfers)
      finite == SelectSeq(cands, IsFinite)
  IN IF finite = <<>> THEN -1 ELSE finite[1].v

\* (a variant of the merge that lets the cross-checks of the own entry decide
\* for every entry)
mergedRemainingOf_AllEntries(S, t, remainingTransfers) ==
  LET cands == mergeCandidates(S, [t EXCEPT !.own = TRUE], remainingTransfers)
  IN maxFinite(cands)

\* mergedRemaining, lines 1615-1626: -1 when there is no candidate
mergedRemainingOf(S, t, remainingTransfers) ==
  LET calcRemaining == remainingTransfers IN
  IF t.own
    THEN maxFinite(mergeCandidates(S, t, remainingTransfers))
    ELSE IF IsFinite(calcRemaining) THEN calcRemaining.v ELSE -1

\* the row built from an "ok" picks response
leagueRow(S, t) ==
  LET eventId == t.key[2]
      historyData == valueOf(S, t.aw[1])
      transfersData == valueOf(S, t.aw[2])
      rawChip == t.data.active_chip
      remainingTransfers ==
        computeRemainingTransfers(historyData, JsNum(eventId),
          [activeChipRaw |-> rawChip, eventTransfers |-> t.data.event_transfers,
           eventTransfersCost |-> t.data.event_transfers_cost])
      mergedRemaining == mergedRemainingOf(S, t, remainingTransfers)
  IN [captain |-> t.data.captain, chip |-> formatChip(rawChip),
      transferCost |-> t.data.event_transfers_cost,
      transfersMade |-> t.data.event_transfers,
      remainingTransfers |->
        IF mergedRemaining < 0
          THEN (IF remainingTransfers = Null THEN NA ELSE remainingTransfers)
          ELSE JsNum(mergedRemaining),
      transferLines |-> SelectSeq(transfersData, LAMBDA tr : tr.event = eventId)]

\* the picks fetch has settled; a rejection rejects Promise.all at once
settleLeaguePicks(S, tid, outcome, data) ==
  IF outcome = "reject" THEN leagueFailed(S, tid)
  ELSE [S EXCEPT !.tasks[tid].picks = outcome, !.tasks[tid].data = data]

\* Promise.all has resolved
leagueAfterAll(S, tid) ==
  LET t == S.tasks[tid]
      key == t.key
      out == leagueRow(S, t)
  IN IF t.picks # "ok" THEN leagueFailed(S, tid)
     ELSE [finishTask([S EXCEPT !.leagueDataCache = MapSet(@, key, out)], tid, out, FALSE)
             EXCEPT !.leagueDataPending = MapDelete(@, key)]

(***************************************************************************)
(* loadMyCurrentTeam: 894-940                                              *)
(***************************************************************************)
loadMyCurrentTeam(S, ev) ==
  LET key == <<ev, 0>> IN
  IF Has(S.myCurrentTeamCache, key)
    THEN [S |-> S, p |-> Resolved(S.myCurrentTeamCache[key])]
  ELSE IF inFlight(S.myCurrentTeamPending, key)
    THEN [S |-> S, p |-> PromiseOf(S.myCurrentTeamPending[key])]
  ELSE LET S1 == addTask(S, NewTask("loadMyCurrentTeam", key, "awaitMyEntryId"))
           tid == Len(S1.tasks)
           me == loadMyEntryId(S1)
       IN [S |-> [me.S EXCEPT !.tasks[tid].aw = <<me.p>>,
                              !.myCurrentTeamPending = MapSet(@, key, tid)],
           p |-> PromiseOf(tid)]

currentTeamFailed(S, tid) ==
  LET key == S.tasks[tid].key IN
  [finishTask([S EXCEPT !.myCurrentTeamCache = storeFailure(@, key, {})], tid, {}, TRUE)
     EXCEPT !.myCurrentTeamPending = MapDelete(@, key)]

\* loadMyEntryId() has settled
currentTeamAfterMyEntryId(S, tid) ==
  LET t == S.tasks[tid]
      myId == valueOf(S, t.aw[1])
  IN IF ~IsFinite(myId) THEN currentTeamFailed(S, tid)
     ELSE countFetch([S EXCEPT !.tasks[tid].pc = "fetch", !.tasks[tid].myId = myId],
                     "loadMyCurrentTeam", t.key)

settleMyCurrentTeam(S, tid, outcome, pickIds) ==
  LET key == S.tasks[tid].key IN
  IF outcome # "ok" THEN currentTeamFailed(S, tid)
  ELSE [finishTask([S EXCEPT !.myCurrentTeamCache = MapSet(@, key, pickIds)],
                   tid, pickIds, FALSE)
          EXCEPT !.myCurrentTeamPending = MapDelete(@, key)]

(***************************************************************************)
(* loadLeagueStandingsEntries, loadMiniLeagueOwnership: 638-661, 750-892   *)
(***************************************************************************)
MaxPages == 2
CAPTAIN_FETCH_CONCURRENCY == 6

EmptySnapshot == [totalRivals |-> 0, rivalTeams |-> EmptyMap, playerOwnership |-> EmptyMap]

\* String(x).toLowerCase() for the chip names of the model
toLowerCase(str) == IF str = "3XC" THEN "3xc" ELSE str

\* (size / successfulRivals) * 100 as the exact fraction num / den
Pct(size, successfulRivals) == [num |-> size * 100, den |-> successfulRivals]

\* a + b of two fractions
PctAdd(a, b) == [num |-> a.num * b.den + b.num * a.den, den |-> a.den * b.den]

NoOwnership == [ownedBy |-> {}, captainedBy |-> {}, tripleCaptainedBy |-> {}]

\* the loop over the picks of one rival, lines 801-826: acc holds
\* playerOwnershipMap, pickIds and captainId
RECURSIVE recordPicks(_, _, _)
recordPicks(acc, entryId, picks) ==
  IF picks = <<>> THEN acc
  ELSE LET pick == Head(picks)
           playerId == ToNumber(pick.element)
       IN IF ~IsFinite(playerId) THEN recordPicks(acc, entryId, Tail(picks))
          ELSE LET m1 == IF Has(acc.map, playerId.v) THEN acc.map
                         ELSE MapSet(acc.map, playerId.v, NoOwnership)
                   m2 == [m1 EXCEPT ![playerId.v].ownedBy = @ \cup {entryId}]
                   m3 == IF pick.is_captain
                           THEN [m2 EXCEPT ![playerId.v].captainedBy = @ \cup {entryId}]
                           ELSE m2
               IN recordPicks([map |-> m3,
                               pickIds |-> acc.pickIds \cup {playerId.v},
                               captainId |-> IF pick.is_captain THEN playerId ELSE acc.captainId],
                              entryId, Tail(picks))


loadMiniLeagueOwnership(S, ev) ==
  LET key == <<ev, 0>> IN
  IF Has(S.miniLeagueOwnershipCache, key)
    THEN [S |-> S, p |-> Resolved(S.miniLeagueOwnershipCache[key])]
  ELSE IF inFlight(S.miniLeagueOwnershipPending, key)
    THEN [S |-> S, p |-> PromiseOf(S.miniLeagueOwnershipPending[key])]
  ELSE LET S1 == addTask(S, NewTask("loadMiniLeagueOwnership", key, "awaitMyEntryId"))
           tid == Len(S1.tasks)
           me == loadMyEntryId(S1)
       IN [S |-> [me.S EXCEPT !.tasks[tid].aw = <<me.p>>,
                              !.miniLeagueOwnershipPending = MapSet(@, key, tid)],
           p |-> PromiseOf(tid)]

\* the empty snapshot of the catch block and of the two empty branches
ownershipEmpty(S, tid) ==
  LET key == S.tasks[tid].key IN
  [finishTask([S EXCEPT !.miniLeagueOwnershipCache = storeFailure(@, key, EmptySnapshot)],
              tid, EmptySnapshot, TRUE)
     EXCEPT !.miniLeagueOwnershipPending = MapDelete(@, key)]

\* [a, b, c, d].map(Number).find((v) => Number.isFinite(v) && v > 0)
RECURSIVE firstPositive(_)
firstPositive(cands) ==
  IF cands = <<>> THEN Undefined
  ELSE IF IsFinite(ToNumber(Head(cands))) /\ ToNumber(Head(cands)).v > 0
    THEN ToNumber(Head(cands))
  ELSE firstPositive(Tail(cands))

\* loadMyEntryId() has settled: the own id is resolved and the first page of
\* the standings is requested
ownershipAfterMyEntryId(S, tid) ==
  LET t == S.tasks[tid]
      myIdFromApi == valueOf(S, t.aw[1])
      fromPath == getMyEntryIdFromPath(S)
      fromNav == getMyEntryIdFromNav(fromPath.S)
      cachedFt == getCachedMyFreeTransfers(fromNav.S)
      myIdFromCache == IF cachedFt.isNull THEN Undefined ELSE cachedFt.entryId
      myId == firstPositive(<<myIdFromApi, fromPath.ret, fromNav.ret, myIdFromCache>>)
  IN countFetch([fromNav.S EXCEPT !.tasks[tid].pc = "standings", !.tasks[tid].myId = myId,
                                  !.tasks[tid].page = 1],
                "loadMiniLeagueOwnership", t.key)

\* the runners of mapWithConcurrency(rivals, CAPTAIN_FETCH_CONCURRENCY, ...):
\* each takes one rival from the queue and requests its picks
ownershipFanOut(S, tid, rivals) ==
  LET n == Min(CAPTAIN_FETCH_CONCURRENCY, Len(rivals)) IN
  [S EXCEPT !.tasks[tid].pc = "rivals",
            !.tasks[tid].inflight = SubSeq(rivals, 1, n),
            !.tasks[tid].queue = SubSeq(rivals, n + 1, Len(rivals)),
            !.fetchCount = MapSet(@, <<"loadMiniLeagueOwnership", S.tasks[tid].key>>,
                                  MapGetOr(@, <<"loadMiniLeagueOwnership", S.tasks[tid].key>>, 0) + n)]

\* loadLeagueStandingsEntries has returned out
ownershipAfterStandings(S, tid, out) ==
  LET myId == S.tasks[tid].myId
      rivals == SelectSeq(out, LAMBDA id : id > 0 /\ (~IsFinite(myId) \/ id # myId.v))
  IN IF Len(rivals) = 0 THEN ownershipEmpty(S, tid)
     ELSE ownershipFanOut(S, tid, rivals)

\* a page of the standings has settled: "ok" with rows and has_next, "http",
\* "reject" or "parse"
settleStandingsPage(S, tid, outcome, rows, has_next) ==
  LET t == S.tasks[tid]
      out == t.out \o rows
  IN IF outcome = "reject" \/ outcome = "parse" THEN ownershipEmpty(S, tid)
     ELSE IF outcome = "http" \/ Len(rows) = 0 THEN ownershipAfterStandings(S, tid, t.out)
     ELSE IF ~has_next THEN ownershipAfterStandings(S, tid, out)
     ELSE countFetch([S EXCEPT !.tasks[tid].out = out, !.tasks[tid].page = @ + 1],
                     "loadMiniLeagueOwnership", t.key)

\* mapWithConcurrency has resolved
ownershipAfterFanOut(S, tid) ==
  LET t == S.tasks[tid]
      key == t.key
      successfulRivals == Len(t.successful)
      playerOwnership ==
        [playerId \in DOMAIN t.playerOwnershipMap |->
           LET data == t.playerOwnershipMap[playerId]
               ownershipPct == Pct(Cardinality(data.ownedBy), successfulRivals)
               captainPct == Pct(Cardinality(data.captainedBy), successfulRivals)
               tripleCaptainPct == Pct(Cardinality(data.tripleCaptainedBy), successfulRivals)
           IN [ownedBy |-> data.ownedBy, ownershipPct |-> ownershipPct,
               captainedBy |-> data.captainedBy, captainPct |-> captainPct,
               tripleCaptainedBy |-> data.tripleCaptainedBy,
               tripleCaptainPct |-> tripleCaptainPct,
               eoPct |-> PctAdd(PctAdd(ownershipPct, captainPct), tripleCaptainPct)]]
      result == [totalRivals |-> successfulRivals,
                 rivalTeams |-> t.rivalTeamsMap,
                 playerOwnership |-> playerOwnership]
  IN IF successfulRivals = 0 THEN ownershipEmpty(S, tid)
     ELSE [finishTask([S EXCEPT !.miniLeagueOwnershipCache = MapSet(@, key, result)],
                      tid, result, FALSE)
             EXCEPT !.miniLeagueOwnershipPending = MapDelete(@, key)]

\* the picks fetch of the i-th running worker has settled; its runner takes the
\* next rival of the queue, or ends
\* (a variant that counts a rival before its response is looked at)
successfulAfter_CountAll(successful, entryId, outcome) == Append(successful, entryId)

\* successfulRivals += 1, kept as the list of the rivals counted
successfulAfter(successful, entryId, outcome) ==
  IF outcome = "ok" THEN Append(successful, entryId) ELSE successful

\* the callback of one rival after an "ok" response with payload data, lines
\* 796-842: the task with the rival's picks, team and triple captain recorded
rivalRecorded(t, entryId, data) ==
  LET acc == recordPicks([map |-> t.playerOwnershipMap, pickIds |-> {}, captainId |-> Null],
                         entryId, data.picks)
      chip == toLowerCase(data.active_chip)
      cap == ToNumber(acc.captainId)
      map == IF IsFinite(cap) /\ chip = "3xc" /\ Has(acc.map, cap.v)
               THEN [acc.map EXCEPT ![cap.v].tripleCaptainedBy = @ \cup {entryId}]
               ELSE acc.map
  IN [t EXCEPT !.playerOwnershipMap = map,
               !.rivalTeamsMap = MapSet(@, entryId,
                                        [picks |-> acc.pickIds, captain |-> acc.captainId,
                                         chip |-> chip])]

settleRivalPicks(S, tid, i, outcome, data) ==
  LET t0 == S.tasks[tid]
      t == IF outcome = "ok" THEN rivalRecorded(t0, t0.inflight[i], data) ELSE t0
      successful == successfulAfter(t.successful, t.inflight[i], outcome)
      S1 == [S EXCEPT !.tasks[tid] = [t EXCEPT !.successful = successful]]
  IN IF Len(t.queue) > 0
       THEN countFetch([S1 EXCEPT !.tasks[tid].inflight[i] = Head(t.queue),
                                  !.tasks[tid].queue = Tail(@)],
                       "loadMiniLeagueOwnership", t.key)
     ELSE LET S2 == [S1 EXCEPT !.tasks[tid].inflight = RemoveAt(@, i)] IN
          IF Len(S2.tasks[tid].inflight) = 0 THEN ownershipAfterFanOut(S2, tid) ELSE S2

(***************************************************************************)
(* The consumers of the ownership snapshot: injectUnderName 461-519,       *)
(* calculateDifferentialInsights 942-1045, calculateRivalDiffData 1783-1812 *)
(***************************************************************************)
OWNERSHIP_THRESHOLDS == [template |-> 60, differential |-> 30, threat |-> 60]

\* pct < n and pct > n for a percentage kept as a fraction
PctBelow(pct, n) == pct.num < n * pct.den
PctAbove(pct, n) == pct.num > n * pct.den

\* the elements of a set of numbers as a list; the insertion order of the
\* Set of the code is taken to be the ascending order
RECURSIVE listOf(_)
listOf(set) ==
  IF set = {} THEN <<>>
  ELSE LET x == CHOOSE x \in set : \A y \in set : x <= y
       IN <<x>> \o listOf(set \ {x})

\* the badge part of injectUnderName for player id: eoPct (Null when there is
\* no counted rival) and the ownership badge ("" when none is shown)
ownershipBadge(ownershipData, myTeam, id) ==
  LET known == Has(ownershipData.playerOwnership, id)
      mlOwnership == IF known THEN ownershipData.playerOwnership[id].ownershipPct
                     ELSE Pct(0, 1)
      totalRivals == ownershipData.totalRivals
      teams == ownershipData.rivalTeams
      capCount == IF totalRivals > 0
                    THEN Cardinality({e \in DOMAIN teams : teams[e].captain = JsNum(id)})
                    ELSE 0
      tripleCapCount ==
        IF totalRivals > 0
          THEN Cardinality({e \in DOMAIN teams :
                              teams[e].captain = JsNum(id) /\ teams[e].chip = "3xc"})
          ELSE 0
      iOwnPlayer == IF Cardinality(myTeam) > 0 THEN id \in myTeam ELSE FALSE
  IN [eoPct |-> IF totalRivals > 0
                  THEN PctAdd(mlOwnership, Pct(capCount + tripleCapCount, totalRivals))
                  ELSE Null,
      diffBadge |->
        IF ~(totalRivals > 0) THEN ""
        ELSE IF iOwnPlayer
          THEN IF PctBelow(mlOwnership, OWNERSHIP_THRESHOLDS.differential) THEN "DIFF"
               ELSE IF PctAbove(mlOwnership, OWNERSHIP_THRESHOLDS.template) THEN "TEMPLATE"
               ELSE "MID"
          ELSE IF PctAbove(mlOwnership, OWNERSHIP_THRESHOLDS.threat) THEN "THREAT"
               ELSE IF ~PctBelow(mlOwnership, OWNERSHIP_THRESHOLDS.differential) THEN "MID"
               ELSE "LOW"]

\* calculateRivalDiffData(rivalTeams.get(entryId), myTeam, ownershipData):
\* Null when the snapshot holds no team of the entry
calculateRivalDiffData(entryId, myTeam, ownershipData) ==
  IF ~Has(ownershipData.rivalTeams, entryId) THEN Null
  ELSE LET picks == ownershipData.rivalTeams[entryId].picks
           own == ownershipData.playerOwnership
       IN [differentialCount |->
             Cardinality({p \in picks : Has(own, p) /\
                            PctBelow(own[p].ownershipPct, OWNERSHIP_THRESHOLDS.differential)}),
           templateCount |->
             Cardinality({p \in picks : Has(own, p) /\
                            PctAbove(own[p].ownershipPct, OWNERSHIP_THRESHOLDS.template)}),
           threatsToYou |->
             listOf({p \in picks : p \notin myTeam /\ Has(own, p) /\
                       PctAbove(own[p].ownershipPct, OWNERSHIP_THRESHOLDS.threat)})]

EmptyInsights ==
  [myDifferentials |-> <<>>, templatesMissing |-> <<>>, myTemplates |-> <<>>,
   uniquePicks |-> 0, differentialCount |-> 0, templateCount |-> 0, myTeam |-> {}]

\* the body of the try block of calculateDifferentialInsights, lines 962-1032
insightsOf(ownershipData, myTeam) ==
  LET own == ownershipData.playerOwnership
      pctOf(playerId) == IF Has(own, playerId) THEN own[playerId].ownershipPct ELSE Pct(0, 1)
      countOf(playerId) == IF Has(own, playerId) THEN Cardinality(own[playerId].ownedBy) ELSE 0
      diffIds == {p \in myTeam : PctBelow(pctOf(p), OWNERSHIP_THRESHOLDS.differential)}
      templateIds == {p \in myTeam : PctAbove(pctOf(p), OWNERSHIP_THRESHOLDS.template)}
      missingIds == {p \in DOMAIN own :
                       p \notin myTeam /\ PctAbove(pctOf(p), OWNERSHIP_THRESHOLDS.threat)}
      differential(p) == [playerId |-> p, ownershipPct |-> pctOf(p), ownedBy |-> countOf(p)]
      template(p) == [playerId |-> p, ownershipPct |-> pctOf(p)]
      missing(p) == [playerId |-> p, ownershipPct |-> pctOf(p), ownedBy |-> countOf(p),
                     ownedByTopRivals |-> ~PctBelow(pctOf(p), 75)]
      list(ids, entry(_)) == [i \in 1..Cardinality(ids) |-> entry(listOf(ids)[i])]
      ascending(a, b) == a.ownershipPct.num * b.ownershipPct.den
                           < b.ownershipPct.num * a.ownershipPct.den
      descending(a, b) == ascending(b, a)
  IN [myDifferentials |-> SortSeq(list(diffIds, differential), ascending),
      templatesMissing |-> SortSeq(list(missingIds, missing), descending),
      myTemplates |-> SortSeq(list(templateIds, template), descending),
      uniquePicks |-> Cardinality({p \in diffIds : countOf(p) = 0}),
      differentialCount |-> Cardinality(diffIds),
      templateCount |-> Cardinality(templateIds),
      myTeam |-> myTeam]

\* calculateDifferentialInsights(eventId) up to its await of Promise.all
calculateDifferentialInsights(S, ev) ==
  IF ev < 1 THEN [S |-> S, p |-> Resolved(EmptyInsights)]
  ELSE LET S1 == addTask(S, NewTask("calculateDifferentialInsights", <<ev, 0>>, "awaitAll"))
           tid == Len(S1.tasks)
           own == loadMiniLeagueOwnership(S1, ev)
           team == loadMyCurrentTeam(own.S, ev)
       IN [S |-> [team.S EXCEPT !.tasks[tid].aw = <<own.p, team.p>>],
           p |-> PromiseOf(tid)]

\* Promise.all has resolved
insightsAfterAll(S, tid) ==
  LET t == S.tasks[tid] IN
  finishTask(S, tid, insightsOf(valueOf(S, t.aw[1]), valueOf(S, t.aw[2])), FALSE)

(***************************************************************************)
(* loadPlayerData: 263-378                                                 *)
(***************************************************************************)
NoSnapshot == [isNull |-> TRUE, games |-> 0]
Snapshot(games) == [isNull |-> FALSE, games |-> games]

\* the cache key `${Number(id)}:${evKey}`; 0 stands for "na"
playerCacheKey(id, eventIdForGw) ==
  LET ev == ToNumber(eventIdForGw) IN
  <<id, IF IsFinite(ev) /\ ev.v > 0 THEN ev.v ELSE 0>>

loadPlayerData(S, id, eventIdForGw) ==
  LET cacheKey == playerCacheKey(id, eventIdForGw) IN
  IF Has(S.cache, cacheKey) THEN [S |-> S, p |-> Resolved(S.cache[cacheKey])]
  ELSE LET S1 == countFetch(addTask(S, NewTask("loadPlayerData", cacheKey, "fetch")),
                            "loadPlayerData", cacheKey)
       IN [S |-> S1, p |-> PromiseOf(Len(S1.tasks))]

\* (a variant whose catch block returns a snapshot of zeros)
settlePlayerData_ZeroOnFailure(S, tid, outcome, games) ==
  IF outcome = "ok"
    THEN finishTask([S EXCEPT !.cache = MapSet(@, S.tasks[tid].key, Snapshot(games))],
                    tid, Snapshot(games), FALSE)
    ELSE finishTask(S, tid, Snapshot(0), TRUE)

\* the element-summary fetch has settled: "ok" with the number of matches
\* played of the last five, or a failure, which is not stored
settlePlayerData(S, tid, outcome, games) ==
  LET cacheKey == S.tasks[tid].key IN
  IF outcome = "ok"
    THEN finishTask([S EXCEPT !.cache = MapSet(@, cacheKey, Snapshot(games))],
                    tid, Snapshot(games), FALSE)
    ELSE finishTask(S, tid, NoSnapshot, TRUE)

\* Number(x ?? 0)
NumberOr0(x) == IF x = Undefined \/ x = Null THEN JsNum(0) ELSE ToNumber(x)

\* a ?? b
Coalesce(a, b) == IF a = Undefined \/ a = Null THEN b ELSE a

\* the sum of a list of numbers, and of f over the elements of a list
RECURSIVE sumOf(_)
sumOf(nums) == IF nums = <<>> THEN 0 ELSE Head(nums) + sumOf(Tail(nums))

sumOver(rows, f(_)) == sumOf([i \in 1..Len(rows) |-> f(rows[i])])

\* a / b rounded to the nearest integer, for a >= 0 and b > 0
RoundDiv(a, b) == (2 * a + b) \div (2 * b)

\* the stable sort of line 280: row goes behind the rows whose round is not
\* greater than its own
RECURSIVE insertByRound(_, _)
insertByRound(sorted, row) ==
  IF sorted = <<>> THEN <<row>>
  ELSE IF NumberOr0(Head(sorted).round).v <= NumberOr0(row.round).v
    THEN <<Head(sorted)>> \o insertByRound(Tail(sorted), row)
    ELSE <<row>> \o sorted

RECURSIVE sortByRound(_)
sortByRound(hist) ==
  IF hist = <<>> THEN <<>>
  ELSE insertByRound(sortByRound(SubSeq(hist, 1, Len(hist) - 1)), hist[Len(hist)])

\* (a variant of the window that takes the first five played rows)
last5Of_First(played) == SubSeq(played, 1, IF Len(played) > 5 THEN 5 ELSE Len(played))

\* played.slice(-5)
last5Of(played) == SubSeq(played, IF Len(played) > 5 THEN Len(played) - 4 ELSE 1, Len(played))

\* (a variant of the divisor without the guard)
gamesOf_Length(last5) == Len(last5)

\* last5.length || 1
gamesOf(last5) == IF Len(last5) = 0 THEN 1 ELSE Len(last5)

\* (a variant of pickDC that reads a missing field as 0)
pickDC_Zero(m) == JsNum(0)

\* pickDC(m): the number of the defensive-contribution field, Null when the
\* field is missing, null or no number
pickDC(m) ==
  LET v == Coalesce(Coalesce(m.defensive_contribution, m.defensive_contributions),
                    m.def_contribution)
  IN IF v = Undefined \/ v = Null THEN Null
     ELSE IF IsFinite(ToNumber(v)) THEN ToNumber(v) ELSE Null

\* pickXGC(row): Number(undefined) is NaN and Number(null) is 0
pickXGC(row) ==
  IF IsFinite(ToNumber(row.expected_goals_conceded))
    THEN ToNumber(row.expected_goals_conceded) ELSE Null

\* sorted.filter((m) => Number(m.round) === gw) for a valid gw, [] otherwise
currentGwRowsOf(sorted, gw) ==
  IF gw > 0 THEN SelectSeq(sorted, LAMBDA m : ToNumber(m.round) = JsNum(gw)) ELSE <<>>

\* the snapshot that loadPlayerData computes from data.history, lines 277-371,
\* for the gameweek gw of the cache key (0 when there is none).  Expected
\* goals, assists and goals conceded are counted in hundredths, so that
\* toFixed(2) is the rounding of a quotient to the nearest integer.
playerSnapshot(hist, gw) ==
  LET sorted == sortByRound(hist)
      played == SelectSeq(sorted, LAMBDA m : IsFinite(NumberOr0(m.minutes))
                                              /\ NumberOr0(m.minutes).v > 0)
      last5 == last5Of(played)
      games == gamesOf(last5)
      min5 == sumOver(last5, LAMBDA m : NumberOr0(m.minutes).v)
      xgi(row) == NumberOr0(row.expected_goals).v + NumberOr0(row.expected_assists).v
      cs5 == sumOver(last5, LAMBDA m : IF NumberOr0(m.clean_sheets).v > 0 THEN 1 ELSE 0)
      savesOf(m) == NumberOr0(m.saves)
      savePoints5 == sumOver(last5, LAMBDA m : IF ~IsFinite(savesOf(m)) \/ savesOf(m).v <= 0
                                                 THEN 0 ELSE savesOf(m).v \div 3)
      withDC == SelectSeq(last5, LAMBDA m : pickDC(m) # Null)
      withXGC == SelectSeq(last5, LAMBDA m : pickXGC(m) # Null)
      xgc5 == sumOver(withXGC, LAMBDA m : pickXGC(m).v)
      currentGwRows == currentGwRowsOf(sorted, gw)
      xgi5 == sumOver(last5, xgi)
      currentGwDcRows == SelectSeq(currentGwRows, LAMBDA m : pickDC(m) # Null)
  IN [isNull |-> FALSE,
      games |-> games,
      cs5 |-> cs5,
      hasDC |-> Len(withDC) > 0,
      dc10Matches5 |-> Len(SelectSeq(withDC, LAMBDA m : pickDC(m).v >= 10)),
      savePoints5 |-> savePoints5,
      xgcPerMatch5 |-> IF games > 0 THEN RoundDiv(xgc5, games) ELSE 0,
      hasXGC |-> Len(withXGC) > 0,
      xgi90 |-> IF min5 > 0 THEN RoundDiv(xgi5 * 90, min5) ELSE 0,
      currentGwXgi |-> sumOver(currentGwRows, xgi),
      hasCurrentGwXgi |-> gw > 0,
      currentGwDc |-> sumOver(currentGwDcRows, LAMBDA m : pickDC(m).v),
      hasCurrentGwDc |-> Len(currentGwDcRows) > 0,
      currentGwSaves |-> sumOver(currentGwRows,
                                 LAMBDA m : IF IsFinite(savesOf(m)) THEN savesOf(m).v ELSE 0),
      currentGwXgc |-> sumOver(SelectSeq(currentGwRows, LAMBDA m : pickXGC(m) # Null),
                               LAMBDA m : pickXGC(m).v)]

\* the texts of the badge of injectUnderName, lines 576-595: the number shown,
\* or NA for "n/a"
badgeTexts(stats) ==
  [saves |-> IF stats.hasCurrentGwXgi THEN JsNum(stats.currentGwSaves) ELSE NA,
   xgc |-> IF stats.hasCurrentGwXgi THEN JsNum(stats.currentGwXgc) ELSE NA,
   xgi |-> IF stats.hasCurrentGwXgi THEN JsNum(stats.currentGwXgi) ELSE NA,
   dc |-> IF stats.hasCurrentGwDc THEN JsNum(stats.currentGwDc) ELSE NA,
   dc5 |-> IF stats.hasDC THEN JsNum(stats.dc10Matches5) ELSE NA,
   xgcPerMatch |-> IF stats.hasXGC THEN JsNum(stats.xgcPerMatch5) ELSE NA]

\* the element-summary fetch has settled: "ok" with data.history = hist (<<>>
\* when it is no array), or a failure, which is not stored
settleElementSummary(S, tid, outcome, hist) ==
  LET cacheKey == S.tasks[tid].key
      snap == playerSnapshot(hist, cacheKey[2])
  IN IF outcome = "ok"
       THEN finishTask([S EXCEPT !.cache = MapSet(@, cacheKey, snap),
                                 !.tasks[tid].hist = hist],
                       tid, snap, FALSE)
       ELSE finishTask(S, tid, NoSnapshot, TRUE)

(***************************************************************************)
(* The loaders: calls from the scans and settling of the requests          *)
(***************************************************************************)
Failures == {"http", "reject", "parse"}

\* where the page and the browser storage may name the own entry
IdentityInputs ==
  {[pathEntryId |-> Null, navEntryId |-> Null, localStorageFt |-> NoStoredFt],
   [pathEntryId |-> JsNum(1), navEntryId |-> Null, localStorageFt |-> NoStoredFt],
   [pathEntryId |-> Null, navEntryId |-> JsNum(1), localStorageFt |-> NoStoredFt],
   [pathEntryId |-> Null, navEntryId |-> Null,
    localStorageFt |-> [present |-> TRUE, value |-> 1, entryId |-> Null]]}

\* the gameweeks of the bootstrap data: the current one and the next
EventInputs == {[currentEventId |-> 1, nextEventId |-> JsNum(2)]}

\* the answers of the server
MeAnswers == {<<JsNum(1), Undefined>>, <<Undefined, Undefined>>}
HistoryAnswers ==
  {[isNull |-> FALSE,
    current |-> <<[event |-> 1, event_transfers |-> 2, event_transfers_cost |-> 0]>>,
    chips |-> <<>>]}
TransfersAnswers == {<<[event |-> 1]>>}
MyTeamAnswers == {<<1, 0>>}
PicksAnswers ==
  {[captain |-> "Salah", active_chip |-> "", event_transfers |-> 1, event_transfers_cost |-> 0]}
PickIdAnswers == {{7}}
StandingsAnswers == {<<>>, [i \in Entries |-> i]}
NoRivalPicks == [picks |-> <<>>, active_chip |-> ""]
RivalPicksAnswers ==
  {[picks |-> <<[element |-> JsNum(7), is_captain |-> TRUE]>>, active_chip |-> ""]}
PlayerIds == {7}
PlayerEvents == {JsNum(0), JsNum(1)}
GamesAnswers == {0, 3}

LoadEmptyState ==
  /\ tasks = <<>>
  /\ fetchCount = EmptyMap
  /\ callers = <<>>
  /\ cache = EmptyMap
  /\ leagueDataCache = EmptyMap
  /\ leagueDataPending = EmptyMap
  /\ entryHistoryCache = EmptyMap
  /\ entryHistoryPending = EmptyMap
  /\ entryTransfersCache = EmptyMap
  /\ entryTransfersPending = EmptyMap
  /\ miniLeagueOwnershipCache = EmptyMap
  /\ miniLeagueOwnershipPending = EmptyMap
  /\ myCurrentTeamCache = EmptyMap
  /\ myCurrentTeamPending = EmptyMap
  /\ myEntryId = Null
  /\ myEntryIdPending = 0
  /\ myTeamTransfersCache = EmptyMap
  /\ myTeamTransfersPending = 0
  /\ myTransfersPageFtCache = Null
  /\ myTransfersPageFtPending = 0

LoadIdleState == LoadEmptyState /\ myFreeTransfersMemory = Null

LoadIdle ==
  /\ LoadIdleState
  /\ pathEntryId = Null
  /\ navEntryId = Null
  /\ localStorageFt = NoStoredFt
  /\ currentEventId = 1
  /\ nextEventId = Null

InitLoadPart ==
  /\ LoadIdleState
  /\ \E id \in IdentityInputs :
       /\ pathEntryId = id.pathEntryId
       /\ navEntryId = id.navEntryId
       /\ localStorageFt = id.localStorageFt
  /\ \E ev \in EventInputs :
       /\ currentEventId = ev.currentEventId
       /\ nextEventId = ev.nextEventId

envVars == <<pathEntryId, navEntryId, currentEventId, nextEventId>>

\* a scan calls loader fn with key and is handed r
Called(fn, key, r) ==
  /\ Len(callers) < MaxCalls
  /\ SetLoaderState(r.S)
  /\ callers' = Append(callers, [fn |-> fn, key |-> key, p |-> r.p])
  /\ UNCHANGED envVars

\* scanLeagueStandingsCaptains: loadEntryLeagueData(job.entryId, currentEventId)
CallLoadEntryLeagueData(entryId) ==
  Called("loadEntryLeagueData", <<entryId, currentEventId>>,
         loadEntryLeagueData(LoaderState, entryId, currentEventId))

CallLoadMiniLeagueOwnership(ev) ==
  Called("loadMiniLeagueOwnership", <<ev, 0>>, loadMiniLeagueOwnership(LoaderState, ev))

CallLoadMyCurrentTeam(ev) ==
  Called("loadMyCurrentTeam", <<ev, 0>>, loadMyCurrentTeam(LoaderState, ev))

\* injectUnderName: loadPlayerData(id, eventIdForView)
CallLoadPlayerData(id, eventIdForGw) ==
  Called("loadPlayerData", playerCacheKey(id, eventIdForGw),
         loadPlayerData(LoaderState, id, eventIdForGw))

\* scanPitchNameBadges("transfers"): scrapeFreeTransfersFromTransfersPage()
\* gave ft (null or 0..5), which is persisted when it is a finite number
ScanTransfersView(ft, storage) ==
  /\ SetLoaderState(IF IsFinite(ft)
                      THEN setCachedMyFreeTransfers(LoaderState, ft, storage)
                      ELSE LoaderState)
  /\ UNCHANGED <<callers, envVars>>

\* task tid is at pc in function fn
At(tid, fn, pc) == tasks[tid].fn = fn /\ tasks[tid].pc = pc

Step(S) == SetLoaderState(S) /\ UNCHANGED <<callers, envVars>>

MeFetchSettles(tid) ==
  /\ At(tid, "loadMyEntryId", "fetch")
  /\ \/ \E a \in MeAnswers : Step(settleMyEntryId(LoaderState, tid, "ok", a[1], a[2]))
     \/ \E f \in Failures : Step(settleMyEntryId(LoaderState, tid, f, Undefined, Undefined))

\* the history fetch settles with one of answers or fails in one of the ways
HistoryFetchSettlesWith(tid, answers, failures) ==
  /\ At(tid, "loadEntryHistory", "fetch")
  /\ \/ \E a \in answers : Step(settleEntryHistory(LoaderState, tid, "ok", a))
     \/ \E f \in failures : Step(settleEntryHistory(LoaderState, tid, f, NullHistory))

HistoryFetchSettles(tid) == HistoryFetchSettlesWith(tid, HistoryAnswers, Failures)

TransfersFetchSettles(tid) ==
  /\ At(tid, "loadEntryTransfers", "fetch")
  /\ \/ \E a \in TransfersAnswers : Step(settleEntryTransfers(LoaderState, tid, "ok", a))
     \/ \E f \in Failures : Step(settleEntryTransfers(LoaderState, tid, f, <<>>))

MyTeamFetchSettlesWith(tid, answers, failures) ==
  /\ At(tid, "loadMyTeamTransfers", "fetch")
  /\ \/ \E a \in answers : Step(settleMyTeamTransfers(LoaderState, tid, "ok", a[1], a[2]))
     \/ \E f \in failures : Step(settleMyTeamTransfers(LoaderState, tid, f, 0, 0))

MyTeamFetchSettles(tid) ==
  MyTeamFetchSettlesWith(tid, MyTeamAnswers, {"http", "fields", "reject"})

LeagueMyEntryIdSettled(tid) ==
  /\ At(tid, "loadEntryLeagueData", "awaitMyEntryId")
  /\ allSettled(LoaderState, tasks[tid].aw)
  /\ Step(leagueStartAll(LoaderState, tid))

LeaguePicksSettleWith(tid, answers, failures) ==
  /\ At(tid, "loadEntryLeagueData", "awaitAll")
  /\ tasks[tid].picks = "pending"
  /\ \/ \E a \in answers : Step(settleLeaguePicks(LoaderState, tid, "ok", a))
     \/ \E f \in failures : Step(settleLeaguePicks(LoaderState, tid, f, NoPicks))

LeaguePicksSettle(tid) == LeaguePicksSettleWith(tid, PicksAnswers, Failures)

LeagueAllSettled(tid) ==
  /\ At(tid, "loadEntryLeagueData", "awaitAll")
  /\ tasks[tid].picks # "pending"
  /\ allSettled(LoaderState, tasks[tid].aw)
  /\ Step(leagueAfterAll(LoaderState, tid))

CurrentTeamMyEntryIdSettled(tid) ==
  /\ At(tid, "loadMyCurrentTeam", "awaitMyEntryId")
  /\ allSettled(LoaderState, tasks[tid].aw)
  /\ Step(currentTeamAfterMyEntryId(LoaderState, tid))

CurrentTeamFetchSettles(tid) ==
  /\ At(tid, "loadMyCurrentTeam", "fetch")
  /\ \/ \E a \in PickIdAnswers : Step(settleMyCurrentTeam(LoaderState, tid, "ok", a))
     \/ \E f \in Failures : Step(settleMyCurrentTeam(LoaderState, tid, f, {}))

OwnershipMyEntryIdSettled(tid) ==
  /\ At(tid, "loadMiniLeagueOwnership", "awaitMyEntryId")
  /\ allSettled(LoaderState, tasks[tid].aw)
  /\ Step(ownershipAfterMyEntryId(LoaderState, tid))

StandingsPageSettlesWith(tid, answers, failures) ==
  /\ At(tid, "loadMiniLeagueOwnership", "standings")
  /\ \/ \E rows \in answers, has_next \in BOOLEAN :
          /\ has_next => tasks[tid].page < MaxPages
          /\ Step(settleStandingsPage(LoaderState, tid, "ok", rows, has_next))
     \/ \E f \in failures : Step(settleStandingsPage(LoaderState, tid, f, <<>>, FALSE))

StandingsPageSettles(tid) == StandingsPageSettlesWith(tid, StandingsAnswers, Failures)

RivalPicksSettleWith(tid, answers, failures) ==
  /\ At(tid, "loadMiniLeagueOwnership", "rivals")
  /\ \E i \in 1..Len(tasks[tid].inflight) :
       \/ \E a \in answers : Step(settleRivalPicks(LoaderState, tid, i, "ok", a))
       \/ \E f \in failures : Step(settleRivalPicks(LoaderState, tid, i, f, NoRivalPicks))

RivalPicksSettle(tid) == RivalPicksSettleWith(tid, RivalPicksAnswers, Failures)

\* scanMyTeamInsights: calculateDifferentialInsights(currentEventId)
CallCalculateDifferentialInsights(ev) ==
  Called("calculateDifferentialInsights", <<ev, 0>>,
         calculateDifferentialInsights(LoaderState, ev))

InsightsAllSettled(tid) ==
  /\ At(tid, "calculateDifferentialInsights", "awaitAll")
  /\ allSettled(LoaderState, tasks[tid].aw)
  /\ Step(insightsAfterAll(LoaderState, tid))

PlayerFetchSettles(tid) ==
  /\ At(tid, "loadPlayerData", "fetch")
  /\ \/ \E g \in GamesAnswers : Step(settlePlayerData(LoaderState, tid, "ok", g))
     \/ \E f \in Failures : Step(settlePlayerData(LoaderState, tid, f, 0))

\* the element-summary fetch settles with one of the histories or fails
ElementSummarySettlesWith(tid, histories, failures) ==
  /\ At(tid, "loadPlayerData", "fetch")
  /\ \/ \E hist \in histories : Step(settleElementSummary(LoaderState, tid, "ok", hist))
     \/ \E f \in failures : Step(settleElementSummary(LoaderState, tid, f, <<>>))

(***************************************************************************)
(* computeRemainingTransfers: specification and properties                 *)
(***************************************************************************)
\* the inputs of the model
HistoryRows ==
  [event : 1..MaxGw, event_transfers : RowTransfers, event_transfers_cost : RowCosts]

ChipEntries == [event : 1..MaxGw, name : LogChipNames]

SeqsUpTo(S, n) == UNION {[1..k -> S] : k \in 0..n}

HistoryInputs ==
  {NullHistory} \cup
  [isNull : {FALSE}, current : SeqsUpTo(HistoryRows, MaxRows),
   chips : SeqsUpTo(ChipEntries, MaxChips)]

EventIdInputs == {NaN, Null} \cup {JsNum(n) : n \in 0..MaxGw}

CurrentEventInputs ==
  [activeChipRaw : LiveChipNames, eventTransfers : LiveTransfers,
   eventTransfersCost : LiveCosts]

NoCurrentEventData == [activeChipRaw |-> "", eventTransfers |-> 0, eventTransfersCost |-> 0]

FTIdle ==
  /\ ftHistoryData = NullHistory
  /\ ftEventId = Unset
  /\ ftCurrentEventData = NoCurrentEventData
  /\ ftLoopEnd = Unset
  /\ ftReturn = Unset

InitFT ==
  /\ MapIdle /\ ScanIdle /\ LoadIdle
  /\ ftHistoryData \in HistoryInputs
  /\ ftEventId = Unset
  /\ ftCurrentEventData = NoCurrentEventData
  /\ ftLoopEnd = Unset
  /\ ftReturn = Unset

\* one call computeRemainingTransfers(historyData, eventId, currentEventData)
CallComputeRemainingTransfers ==
  /\ ftReturn = Unset
  /\ \E eventId \in EventIdInputs, currentEventData \in CurrentEventInputs :
       /\ ftEventId' = eventId
       /\ ftCurrentEventData' = currentEventData
       /\ ftLoopEnd' = loopResult(ftHistoryData, eventId, currentEventData)
       /\ ftReturn' = computeRemainingTransfers(ftHistoryData, eventId, currentEventData)
  /\ UNCHANGED <<ftHistoryData, mapVars, scanVars, loadVars>>

NextFT == CallComputeRemainingTransfers

SpecFT == InitFT /\ [][NextFT]_vars

ftCalled == ftReturn # Unset

ftTargetValid == IsFinite(ftEventId) /\ ftEventId.v >= 1

\* C9: computeRemainingTransfers returns null when the target gameweek is not a
\* number >= 1, and otherwise an integer in 0..5, whatever the history, the chip
\* log and the live override are.
C9_ReturnRange ==
  ftCalled =>
    IF ftTargetValid
      THEN IsFinite(ftReturn) /\ ftReturn.v \in 0..FT_CAP
      ELSE ftReturn = Null

\* a call for the last gameweek of the model, the bank at the cap, with more
\* transfers made than a cost that is no multiple of 4 pays for
C9_Witness ==
  /\ ftCalled /\ ftTargetValid
  /\ ftEventId.v = MaxGw
  /\ ftCurrentEventData.eventTransfers = 2
  /\ ftCurrentEventData.eventTransfersCost = 7
  /\ ftReturn = JsNum(4)

\* a call whose target is no gameweek
C9_WitnessNull == ftCalled /\ ~ftTargetValid /\ ftReturn = Null

(***************************************************************************)
(* The transition rule in the words of the specification (section 4.4,     *)
(* Estimator A), written without the operators above.                      *)
(***************************************************************************)
\* the history row of a gameweek, as the set of rows that are the last of
\* their gameweek in the list
RefRows(historyData, ev) ==
  IF historyData.isNull THEN {}
  ELSE {historyData.current[i] : i \in {k \in 1..Len(historyData.current) :
          /\ historyData.current[k].event = ev
          /\ \A j \in 1..Len(historyData.current) :
               historyData.current[j].event = ev => j <= k}}

RefLogChips(historyData, ev) ==
  IF historyData.isNull THEN {}
  ELSE {historyData.chips[i].name : i \in {k \in 1..Len(historyData.chips) :
          /\ historyData.chips[k].event = ev
          /\ \A j \in 1..Len(historyData.chips) :
               historyData.chips[j].event = ev => j <= k}}

\* is a wildcard or free hit active in gameweek ev?  liveChipAlways: the live
\* chip replaces the logged chip of the target gameweek even when it is empty
RefChipHolds(historyData, target, live, ev, liveChipAlways) ==
  LET names == IF ev = target /\ (liveChipAlways \/ live.activeChipRaw # "")
                 THEN {live.activeChipRaw}
                 ELSE RefLogChips(historyData, ev)
  IN names \cap {"wildcard", "freehit"} # {}

RefTransfers(historyData, target, live, ev) ==
  IF ev = target THEN live.eventTransfers
  ELSE IF RefRows(historyData, ev) = {} THEN 0
  ELSE (CHOOSE r \in RefRows(historyData, ev) : TRUE).event_transfers

RefCost(historyData, target, live, ev) ==
  IF ev = target THEN live.eventTransfersCost
  ELSE IF RefRows(historyData, ev) = {} THEN 0
  ELSE (CHOOSE r \in RefRows(historyData, ev) : TRUE).event_transfers_cost

RECURSIVE RefEnd(_, _, _, _, _)
RefEnd(historyData, target, live, ev, liveChipAlways) ==
  LET ftStart == IF ev = 1 THEN 1
                 ELSE LET prev == RefEnd(historyData, target, live, ev - 1, liveChipAlways)
                      IN IF prev + 1 > 5 THEN 5 ELSE prev + 1
      made == RefTransfers(historyData, target, live, ev)
      paid == RefCost(historyData, target, live, ev) \div 4
      used == IF made - paid > 0 THEN made - paid ELSE 0
  IN IF RefChipHolds(historyData, target, live, ev, liveChipAlways) THEN ftStart
     ELSE IF ftStart - used > 0 THEN ftStart - used ELSE 0

\* C10 as stated: before the stale-data guard the value equals the reference
\* in which the live override's chip, transfers and cost replace the history's
\* for the target gameweek.
C10_AsStated ==
  (ftCalled /\ ftTargetValid) =>
    ftLoopEnd = JsNum(RefEnd(ftHistoryData, ftEventId.v, ftCurrentEventData,
                             ftEventId.v, TRUE))

\* C10 (amended): before the stale-data guard the value equals the reference
\* simulation of gameweeks 1..target (ftStart 1 for gameweek 1, else
\* min(5, previous end + 1); paid = floor(cost/4); used = max(0, made - paid);
\* end = ftStart under wildcard/free hit, else max(0, ftStart - used)), where
\* for the target gameweek the live transfers and cost replace the row's and
\* the live chip replaces the logged chip when the live override names a chip.
C10_TransitionRule ==
  (ftCalled /\ ftTargetValid) =>
    ftLoopEnd = JsNum(RefEnd(ftHistoryData, ftEventId.v, ftCurrentEventData,
                             ftEventId.v, FALSE))

\* a call for the last gameweek after a gameweek with unpaid transfers in the
\* history, with one paid and one unpaid live transfer
C10_Witness ==
  /\ ftCalled /\ ftTargetValid
  /\ ftEventId.v = MaxGw
  /\ ~ftHistoryData.isNull
  /\ \E i \in 1..Len(ftHistoryData.current) :
       /\ ftHistoryData.current[i].event = MaxGw - 1
       /\ ftHistoryData.current[i].event_transfers = 2
       /\ ftHistoryData.current[i].event_transfers_cost = 0
  /\ ftCurrentEventData.activeChipRaw = ""
  /\ ftCurrentEventData.eventTransfers = 2
  /\ ftCurrentEventData.eventTransfersCost = 4
  /\ ftLoopEnd = JsNum(3)

(***************************************************************************)
(* The gameweeks of the call that was made: what the loop held after each  *)
(* gameweek, and the gameweek's data read from the inputs.                 *)
(***************************************************************************)
\* ftEndPrev after gameweek ev of the call
FtEndOf(ev) == ftEndAfter(ftHistoryData, ftEventId.v, ftCurrentEventData, ev)

\* the bank at the start of gameweek ev: 1 for gameweek 1, else one more than
\* the bank at the end of the gameweek before, at most 5
FtStartIn(ev) == IF ev = 1 THEN 1 ELSE IF FtEndOf(ev - 1) + 1 > 5 THEN 5 ELSE FtEndOf(ev - 1) + 1

ChipIn(ev) == RefChipHolds(ftHistoryData, ftEventId.v, ftCurrentEventData, ev, FALSE)

MadeIn(ev) == RefTransfers(ftHistoryData, ftEventId.v, ftCurrentEventData, ev)

PaidIn(ev) == RefCost(ftHistoryData, ftEventId.v, ftCurrentEventData, ev) \div 4

UnpaidIn(ev) == IF MadeIn(ev) - PaidIn(ev) > 0 THEN MadeIn(ev) - PaidIn(ev) ELSE 0

NoRowIn(ev) == RefRows(ftHistoryData, ev) = {}

\* C11: paid transfers do not consume the bank: gameweek 1 with no transfers
\* returns 1; in every gameweek without wildcard/free hit in which every
\* transfer was paid (made <= floor(cost/4)) the bank at the end of the
\* gameweek equals ftStart, and so does the value returned for the target.
C11_PaidKeepBank ==
  (ftCalled /\ ftTargetValid) =>
    /\ (ftEventId.v = 1 /\ ftCurrentEventData.eventTransfers = 0) => ftReturn = JsNum(1)
    /\ \A ev \in 1..ftEventId.v :
         (~ChipIn(ev) /\ MadeIn(ev) <= PaidIn(ev)) => FtEndOf(ev) = FtStartIn(ev)
    /\ (~ChipIn(ftEventId.v) /\ MadeIn(ftEventId.v) <= PaidIn(ftEventId.v)) =>
         /\ ftLoopEnd = JsNum(FtStartIn(ftEventId.v))
         /\ ftReturn = JsNum(FtStartIn(ftEventId.v))

\* one transfer with cost 4 in gameweek 2 entered with a bank of 2, no chip
C11_Witness ==
  /\ ftCalled /\ ftTargetValid
  /\ ftEventId.v = 2
  /\ ~ChipIn(2)
  /\ ftCurrentEventData.eventTransfers = 1
  /\ ftCurrentEventData.eventTransfersCost = 4
  /\ FtStartIn(2) = 2
  /\ ftReturn = JsNum(2)

\* C12: in a gameweek with a wildcard or free hit active the bank at the end of
\* the gameweek equals ftStart, whatever transfers and cost are; the chip of the
\* target gameweek is the live override's when it names one (so a live chip
\* that is no wildcard/free hit hides a logged one), else the chip log's.
C12_ChipKeepsBank ==
  (ftCalled /\ ftTargetValid) =>
    /\ \A ev \in 1..ftEventId.v : ChipIn(ev) => FtEndOf(ev) = FtStartIn(ev)
    /\ ChipIn(ftEventId.v) =>
         /\ ftLoopEnd = JsNum(FtStartIn(ftEventId.v))
         /\ ftReturn = JsNum(FtStartIn(ftEventId.v))
    /\ (/\ ftCurrentEventData.activeChipRaw \notin {"", "wildcard", "freehit"}
        /\ RefLogChips(ftHistoryData, ftEventId.v) \cap {"wildcard", "freehit"} # {}) =>
         ftLoopEnd = JsNum(IF FtStartIn(ftEventId.v) - UnpaidIn(ftEventId.v) > 0
                             THEN FtStartIn(ftEventId.v) - UnpaidIn(ftEventId.v) ELSE 0)

\* a target gameweek whose free hit is in the chip log only, two unpaid
\* transfers made, the bank kept
C12_Witness ==
  /\ ftCalled /\ ftTargetValid
  /\ ftEventId.v = 3
  /\ ftCurrentEventData.activeChipRaw = ""
  /\ RefLogChips(ftHistoryData, 3) = {"freehit"}
  /\ ftCurrentEventData.eventTransfers = 2
  /\ ftCurrentEventData.eventTransfersCost = 0
  /\ ftReturn = JsNum(FtStartIn(3))
  /\ ftReturn = JsNum(3)

C13_WitnessGap ==
  /\ ftCalled /\ ftTargetValid
  /\ ftEventId.v = MaxGw
  /\ ~ftHistoryData.isNull
  /\ Len(ftHistoryData.current) = 1
  /\ ftHistoryData.current[1].event = 3
  /\ ftHistoryData.current[1].event_transfers = 2
  /\ ftHistoryData.current[1].event_transfers_cost = 0
  /\ FtEndOf(2) = 2 /\ FtEndOf(3) = 1 /\ FtEndOf(4) = 2

\* the conditions of the stale-data guard, read from the inputs of the call
StaleCase ==
  /\ ftEventId.v > 1
  /\ ftCurrentEventData.eventTransfers > 0
  /\ ftCurrentEventData.eventTransfersCost >= 0
  /\ ftLoopEnd = JsNum(0)
  /\ (IF ftCurrentEventData.eventTransfers - ftCurrentEventData.eventTransfersCost \div 4 > 0
        THEN ftCurrentEventData.eventTransfers - ftCurrentEventData.eventTransfersCost \div 4
        ELSE 0) < 2

\* C14: the call returns 1 instead of the simulated value exactly when the
\* target gameweek is > 1, live transfers were made, the live cost is >= 0, the
\* simulated value is 0 and fewer than 2 unpaid transfers were made in the
\* target gameweek; in every other case it returns the simulated value.
C14_StaleGuard ==
  (ftCalled /\ ftTargetValid) =>
    ftReturn = (IF StaleCase THEN JsNum(1) ELSE ftLoopEnd)

\* the guard replaces a simulated 0 by 1
C14_Witness ==
  /\ ftCalled /\ ftTargetValid
  /\ StaleCase
  /\ ftLoopEnd = JsNum(0)
  /\ ftReturn = JsNum(1)

\* a simulated 0 that is returned: two unpaid transfers in the target gameweek
C14_WitnessZero ==
  /\ ftCalled /\ ftTargetValid
  /\ ftEventId.v > 1
  /\ ftCurrentEventData.eventTransfers = 2
  /\ ftCurrentEventData.eventTransfersCost = 0
  /\ ftLoopEnd = JsNum(0)
  /\ ftReturn = JsNum(0)

\* max(0, ftStart - unpaid transfers) of the target gameweek
BankLessUnpaid ==
  IF FtStartIn(ftEventId.v) - UnpaidIn(ftEventId.v) > 0
    THEN FtStartIn(ftEventId.v) - UnpaidIn(ftEventId.v) ELSE 0

\* C15 as stated: with no wildcard/free hit active in the target gameweek the
\* value returned equals max(0, ftStart - unpaid transfers of that gameweek).
C15_AsStated ==
  (ftCalled /\ ftTargetValid /\ ~ChipIn(ftEventId.v)) =>
    ftReturn = JsNum(BankLessUnpaid)

\* C15 (amended): with no wildcard/free hit active in the target gameweek the
\* simulated value equals max(0, ftStart - unpaid transfers of that gameweek),
\* and the value returned equals it unless it is 0 in a gameweek > 1 in which
\* exactly one unpaid transfer was made: then 1 is returned.
C15_UnpaidConsume ==
  (ftCalled /\ ftTargetValid /\ ~ChipIn(ftEventId.v)) =>
    /\ ftLoopEnd = JsNum(BankLessUnpaid)
    /\ ftReturn = (IF ftEventId.v > 1 /\ BankLessUnpaid = 0 /\ UnpaidIn(ftEventId.v) = 1
                     THEN JsNum(1) ELSE JsNum(BankLessUnpaid))

\* a gameweek > 1 entered with a bank of 1, one unpaid transfer made: the
\* simulation leaves 0 and the call returns 1
C15_Witness ==
  /\ ftCalled /\ ftTargetValid /\ ~ChipIn(ftEventId.v)
  /\ ftEventId.v > 1
  /\ FtStartIn(ftEventId.v) = 1
  /\ ftCurrentEventData.eventTransfers = 1
  /\ ftCurrentEventData.eventTransfersCost = 0
  /\ ftLoopEnd = JsNum(0)
  /\ ftReturn = JsNum(1)

\* two unpaid transfers out of a bank of 3
C15_WitnessConsume ==
  /\ ftCalled /\ ftTargetValid /\ ~ChipIn(ftEventId.v)
  /\ FtStartIn(ftEventId.v) = 3
  /\ ftCurrentEventData.eventTransfers = 2
  /\ ftCurrentEventData.eventTransfersCost = 0
  /\ ftReturn = JsNum(1)

(***************************************************************************)
(* mapWithConcurrency: specification and properties                        *)
(***************************************************************************)
InitMap == FTIdle /\ MapIdle /\ ScanIdle /\ LoadIdle

NextMap ==
  \/ \E items \in SeqsUpTo(ItemValues, MaxItems), limit \in 0..MaxLimit :
       MapWithConcurrency(items, limit) /\ UNCHANGED <<ftVars, scanVars, loadVars>>
  \/ \E r \in 1..(MaxItems + MaxLimit) : WorkerResolves(r) /\ UNCHANGED <<ftVars, scanVars, loadVars>>
  \/ \E r \in 1..(MaxItems + MaxLimit) : WorkerRejects(r) /\ UNCHANGED <<ftVars, scanVars, loadVars>>

SpecMap == InitMap /\ [][NextMap]_vars

mapCalled == mapSettled # "idle"

mapRunning == Cardinality({r \in 1..Len(mapRunners) : mapRunners[r].st = "working"})

\* C5: with limit >= 1 never more than min(limit, number of items) workers run
\* at the same time, and a runner has at most one worker call in progress: the
\* calls made so far are the ended calls plus one per working runner.
C5_BoundedConcurrency ==
  (mapCalled /\ mapLimit >= 1) =>
    /\ mapRunning <= Min(mapLimit, Len(mapItems))
    /\ Len(mapCalls) = mapFinished + mapRunning
    /\ Len(mapRunners) <= Min(mapLimit, Len(mapItems))

\* more items than the limit, the limit reached, and a runner on a later item
C5_Witness ==
  /\ mapCalled /\ mapLimit = 2 /\ Len(mapItems) = 3
  /\ mapRunning = 2
  /\ mapFinished = 1
  /\ Len(mapCalls) = 3

mapNoThrow == \A r \in 1..Len(mapRunners) : mapRunners[r].st # "rejected"

IsPrefix(p, q) == Len(p) <= Len(q) /\ \A i \in 1..Len(p) : p[i] = q[i]

\* C6: with limit >= 1 and workers that do not throw, the worker calls made so
\* far are a prefix of the input list (every item once, in list order), the
\* caller's list is the list that was passed, and the promise resolves only
\* when every item was passed to the worker and every worker call has ended;
\* an empty list resolves without a worker call.
C6_EveryItemOnceInOrder ==
  (mapCalled /\ mapLimit >= 1 /\ mapNoThrow) =>
    /\ IsPrefix(mapCalls, mapItems)
    /\ mapItems = mapCalls \o mapQueue
    /\ mapSettled \in {"pending", "resolved"}
    /\ (mapSettled = "resolved") <=>
         (mapCalls = mapItems /\ mapFinished = Len(mapItems) /\ mapRunning = 0)
    /\ (mapItems = <<>>) => (mapSettled = "resolved" /\ mapCalls = <<>>)

\* three different-looking items through two runners, all done
C6_Witness ==
  /\ mapCalled /\ mapLimit = 2 /\ mapNoThrow
  /\ mapItems = <<"a", "b", "a">>
  /\ mapSettled = "resolved"
  /\ mapCalls = mapItems
  /\ mapFinished = 3

\* the empty list
C6_WitnessEmpty ==
  mapCalled /\ mapLimit >= 1 /\ mapItems = <<>> /\ mapSettled = "resolved"

(***************************************************************************)
(* scan: specification and properties                                      *)
(***************************************************************************)
InitScan == FTIdle /\ MapIdle /\ InitScanPart /\ LoadIdle

NextScan ==
  \/ ScheduleScanRequested /\ UNCHANGED <<ftVars, mapVars, loadVars>>
  \/ ScanTimerFires /\ UNCHANGED <<ftVars, mapVars, loadVars>>
  \/ InitCallsScan /\ UNCHANGED <<ftVars, mapVars, loadVars>>
  \/ \E p \in 1..2 : ViewScanResolves(p) /\ UNCHANGED <<ftVars, mapVars, loadVars>>
  \/ \E p \in 1..2 : ViewScanThrows(p) /\ UNCHANGED <<ftVars, mapVars, loadVars>>
  \/ \E path \in Pathnames : Navigate(path) /\ UNCHANGED <<ftVars, mapVars, loadVars>>

\* a timer that was set fires
SpecScan == InitScan /\ [][NextScan]_vars /\ WF_vars(ScanTimerFires /\ UNCHANGED <<ftVars, mapVars, loadVars>>)

\* C3: never two passes inside their view scans at once, and scanInProgress is
\* true exactly while a pass is running (so it is reset when the pass ends,
\* through a throwing view scan too).
C3_ScanSerialized ==
  /\ Len(scanPasses) <= 1
  /\ scanInProgress <=> (Len(scanPasses) = 1)

\* a scan was requested during a pass, and the pass is on its second view
C3_Witness ==
  /\ scanInProgress /\ scanQueued
  /\ Len(scanPasses) = 1
  /\ scanPasses[1] = <<"my-team-insights">>

\* the pass ends in this step
PassEnding == scanInProgress /\ ~scanInProgress'

\* C4: a request made during a pass sets scanQueued only (scanQueued implies
\* scanInProgress); at most one scan timer is ever pending; when a pass with
\* coalesced requests ends, scanQueued is cleared and exactly one timer is
\* pending; and once the pass has ended the owed re-run starts, unless the
\* route has stopped matching when the timer fires.
C4_ScanCoalesced ==
  /\ [](scanQueued => scanInProgress)
  /\ [](scanTimers <= 1 /\ (scheduledTimer <=> scanTimers = 1))
  /\ [](scanOwed /\ scanInProgress => scanQueued)
  /\ [][(PassEnding /\ scanQueued) =>
          (~scanQueued' /\ scheduledTimer' /\ scanTimers' = 1 /\ scanOwed')]_vars
  /\ ((scanOwed /\ ~scanInProgress) ~> ~scanOwed)

\* two requests were coalesced during the pass that has just ended, and one
\* timer is pending for the re-run
C4_Witness ==
  /\ scanOwed /\ ~scanInProgress /\ ~scanQueued
  /\ scanCoalesced = 2
  /\ scanTimers = 1

(***************************************************************************)
(* The loaders: specification and properties                               *)
(***************************************************************************)
InitLoad == FTIdle /\ MapIdle /\ ScanIdle /\ InitLoadPart

NextLoad ==
  \/ \E entryId \in Entries :
       CallLoadEntryLeagueData(entryId) /\ UNCHANGED <<ftVars, mapVars, scanVars>>
  \/ \E ev \in Events :
       CallLoadMiniLeagueOwnership(ev) /\ UNCHANGED <<ftVars, mapVars, scanVars>>
  \/ \E ev \in Events :
       CallLoadMyCurrentTeam(ev) /\ UNCHANGED <<ftVars, mapVars, scanVars>>
  \/ \E id \in PlayerIds, ev \in PlayerEvents :
       CallLoadPlayerData(id, ev) /\ UNCHANGED <<ftVars, mapVars, scanVars>>
  \/ \E tid \in DOMAIN tasks : MeFetchSettles(tid) /\ UNCHANGED <<ftVars, mapVars, scanVars>>
  \/ \E tid \in DOMAIN tasks : HistoryFetchSettles(tid) /\ UNCHANGED <<ftVars, mapVars, scanVars>>
  \/ \E tid \in DOMAIN tasks : TransfersFetchSettles(tid) /\ UNCHANGED <<ftVars, mapVars, scanVars>>
  \/ \E tid \in DOMAIN tasks : MyTeamFetchSettles(tid) /\ UNCHANGED <<ftVars, mapVars, scanVars>>
  \/ \E tid \in DOMAIN tasks : LeagueMyEntryIdSettled(tid) /\ UNCHANGED <<ftVars, mapVars, scanVars>>
  \/ \E tid \in DOMAIN tasks : LeaguePicksSettle(tid) /\ UNCHANGED <<ftVars, mapVars, scanVars>>
  \/ \E tid \in DOMAIN tasks : LeagueAllSettled(tid) /\ UNCHANGED <<ftVars, mapVars, scanVars>>
  \/ \E tid \in DOMAIN tasks :
       CurrentTeamMyEntryIdSettled(tid) /\ UNCHANGED <<ftVars, mapVars, scanVars>>
  \/ \E tid \in DOMAIN tasks :
       CurrentTeamFetchSettles(tid) /\ UNCHANGED <<ftVars, mapVars, scanVars>>
  \/ \E tid \in DOMAIN tasks :
       OwnershipMyEntryIdSettled(tid) /\ UNCHANGED <<ftVars, mapVars, scanVars>>
  \/ \E tid \in DOMAIN tasks : StandingsPageSettles(tid) /\ UNCHANGED <<ftVars, mapVars, scanVars>>
  \/ \E tid \in DOMAIN tasks : RivalPicksSettle(tid) /\ UNCHANGED <<ftVars, mapVars, scanVars>>
  \/ \E tid \in DOMAIN tasks : PlayerFetchSettles(tid) /\ UNCHANGED <<ftVars, mapVars, scanVars>>

SpecLoad == InitLoad /\ [][NextLoad]_vars

\* the loaders that keep a completed Map and a pending Map
MapBacked ==
  {"loadEntryLeagueData", "loadEntryHistory", "loadEntryTransfers",
   "loadMiniLeagueOwnership", "loadMyCurrentTeam"}

cacheOf(fn) ==
  IF fn = "loadEntryLeagueData" THEN leagueDataCache
  ELSE IF fn = "loadEntryHistory" THEN entryHistoryCache
  ELSE IF fn = "loadEntryTransfers" THEN entryTransfersCache
  ELSE IF fn = "loadMiniLeagueOwnership" THEN miniLeagueOwnershipCache
  ELSE myCurrentTeamCache

pendingOf(fn) ==
  IF fn = "loadEntryLeagueData" THEN leagueDataPending
  ELSE IF fn = "loadEntryHistory" THEN entryHistoryPending
  ELSE IF fn = "loadEntryTransfers" THEN entryTransfersPending
  ELSE IF fn = "loadMiniLeagueOwnership" THEN miniLeagueOwnershipPending
  ELSE myCurrentTeamPending

\* the task ids of the computations of loader fn for key
tasksOf(fn, key) == {i \in DOMAIN tasks : tasks[i].fn = fn /\ tasks[i].key = key}

\* promise p is, or was resolved with the result of, computation i
handsOver(p, i) ==
  IF p.tid = 0 THEN tasks[i].done /\ p.val = tasks[i].res ELSE p.tid = i

fetchesOf(fn, key) == MapGetOr(fetchCount, <<fn, key>>, 0)

\* C1: in the Map-backed domains a key has at most one computation in the
\* session, its request is issued once, and every caller of the key, a scan or
\* loadEntryLeagueData awaiting the history and the transfers of its entry, is
\* handed that computation's promise or its completed result.
C1_SingleFlight ==
  /\ \A i, j \in DOMAIN tasks :
       (tasks[i].fn \in MapBacked /\ tasks[i].fn = tasks[j].fn /\ tasks[i].key = tasks[j].key)
         => i = j
  /\ \A i \in DOMAIN tasks :
       tasks[i].fn \in MapBacked \ {"loadMiniLeagueOwnership"}
         => fetchesOf(tasks[i].fn, tasks[i].key) <= 1
  /\ \A c \in DOMAIN callers :
       callers[c].fn \in MapBacked
         => \E i \in tasksOf(callers[c].fn, callers[c].key) : handsOver(callers[c].p, i)
  /\ \A t \in DOMAIN tasks :
       (tasks[t].fn = "loadEntryLeagueData" /\ Len(tasks[t].aw) = 5)
         => /\ \E i \in tasksOf("loadEntryHistory", <<tasks[t].key[1], 0>>) :
                 handsOver(tasks[t].aw[1], i)
            /\ \E i \in tasksOf("loadEntryTransfers", <<tasks[t].key[1], 0>>) :
                 handsOver(tasks[t].aw[2], i)

\* two scans called a Map-backed loader with one key while its computation was
\* in flight, and the computation has completed
C1_Witness ==
  /\ Len(callers) = 2
  /\ callers[1].fn \in MapBacked
  /\ callers[1].fn = callers[2].fn
  /\ callers[1].key = callers[2].key
  /\ callers[1].p.tid # 0
  /\ callers[2].p.tid = callers[1].p.tid
  /\ tasks[callers[1].p.tid].done

\* the sentinel a Map-backed loader stores when its computation fails
sentinelOf(fn) ==
  IF fn = "loadEntryLeagueData" THEN NaRow
  ELSE IF fn = "loadEntryHistory" THEN NullHistory
  ELSE IF fn = "loadEntryTransfers" THEN <<>>
  ELSE IF fn = "loadMiniLeagueOwnership" THEN EmptySnapshot
  ELSE {}

\* the computation of loader fn for key has failed
hasFailed(fn, key) == \E i \in tasksOf(fn, key) : tasks[i].done /\ tasks[i].failed

\* in this step a scan calls a loader
CallStep == Len(callers') = Len(callers) + 1

\* C7: when the computation of a Map-backed loader has failed for a key, the
\* completed cache holds the sentinel for the key and the pending Map has no
\* entry for it; a later call with the key is handed the sentinel, and the call
\* issues no request and starts no computation.
C7_FailureCached ==
  /\ [](\A i \in DOMAIN tasks :
          (tasks[i].fn \in MapBacked /\ tasks[i].done /\ tasks[i].failed)
            => /\ Has(cacheOf(tasks[i].fn), tasks[i].key)
               /\ cacheOf(tasks[i].fn)[tasks[i].key] = sentinelOf(tasks[i].fn)
               /\ ~Has(pendingOf(tasks[i].fn), tasks[i].key))
  /\ [][(CallStep /\ callers'[Len(callers')].fn \in MapBacked
           /\ hasFailed(callers'[Len(callers')].fn, callers'[Len(callers')].key))
          => /\ callers'[Len(callers')].p.tid = 0
             /\ callers'[Len(callers')].p.val = sentinelOf(callers'[Len(callers')].fn)
             /\ fetchCount' = fetchCount
             /\ tasks' = tasks]_vars

\* a Map-backed computation failed and a later call of its key was handed the sentinel
C7_Witness ==
  \E c \in DOMAIN callers :
    /\ callers[c].fn \in MapBacked
    /\ hasFailed(callers[c].fn, callers[c].key)
    /\ callers[c].p.tid = 0
    /\ callers[c].p.val = sentinelOf(callers[c].fn)

\* C2 as the specification states it: no (player id, gameweek-or-none) key has
\* more than one element-summary request.
C2_AtMostOneFetch ==
  \A k \in DOMAIN fetchCount : k[1] = "loadPlayerData" => fetchCount[k] <= 1

\* two calls of loadPlayerData with one key, the second while the request of
\* the first was in flight
C2_Witness ==
  /\ Len(callers) = 2
  /\ callers[1].fn = "loadPlayerData"
  /\ callers[2].fn = "loadPlayerData"
  /\ callers[1].key = callers[2].key
  /\ callers[1].p.tid # 0
  /\ callers[2].p.tid # 0
  /\ ~tasks[callers[1].p.tid].done

\* the cache domains of C8
OtherDomains ==
  {"loadPlayerData", "loadMyEntryId", "loadMyTeamTransfers",
   "loadMyFreeTransfersFromTransfersHtml"}

\* C8 as the specification states it: once a computation of one of the other
\* cache domains has failed for a key, no step issues a request for that key.
C8_NoFetchAfterFailure ==
  [][\A i \in DOMAIN tasks :
       (tasks[i].fn \in OtherDomains /\ tasks[i].done /\ tasks[i].failed)
         => MapGetOr(fetchCount', <<tasks[i].fn, tasks[i].key>>, 0)
              = fetchesOf(tasks[i].fn, tasks[i].key)]_vars

\* a computation of one of the other cache domains has failed, and a later
\* computation of the same key is in flight
C8_Witness ==
  \E i, j \in DOMAIN tasks :
    /\ i < j
    /\ tasks[i].fn \in OtherDomains
    /\ tasks[i].fn = tasks[j].fn
    /\ tasks[i].key = tasks[j].key
    /\ tasks[i].done /\ tasks[i].failed
    /\ ~tasks[j].done


(***************************************************************************)
(* loadEntryLeagueData for one entry with the cross-checks of the own      *)
(* entry: specification and properties.  The page names the user's entry   *)
(* (1, the entry of the league row, or 2, another one); the remembered and *)
(* the persisted free transfers come from earlier visits of the transfers  *)
(* page.                                                                   *)
(***************************************************************************)
MergePathEntryIds == {JsNum(1), JsNum(2)}

\* myFreeTransfersMemory: null, or what scrapeFreeTransfersFromTransfersPage
\* found (0..5)
MergeMemory == {Null, JsNum(0), JsNum(3)}

\* the stored record: none, one without an entryId field, one whose entryId
\* is null (it reads back as 0, like the 0 that setCachedMyFreeTransfers
\* writes when the page names no entry), one of entry 1 and one of entry 2
MergeStored ==
  {NoStoredFt,
   [present |-> TRUE, value |-> 0, entryId |-> Undefined],
   [present |-> TRUE, value |-> 3, entryId |-> Null],
   [present |-> TRUE, value |-> 4, entryId |-> JsNum(1)],
   [present |-> TRUE, value |-> 5, entryId |-> JsNum(2)]}

MergeHistoryAnswers ==
  {[isNull |-> FALSE,
    current |-> <<[event |-> 1, event_transfers |-> n, event_transfers_cost |-> 0]>>,
    chips |-> <<>>] : n \in {0, 2}}

\* transfers.limit and transfers.made of a my-team response
MergeMyTeamAnswers == {<<1, 0>>, <<1, 1>>, <<7, 0>>}

MergePicksAnswers ==
  {[captain |-> "Salah", active_chip |-> "", event_transfers |-> n,
    event_transfers_cost |-> 0] : n \in {0, 1, 2}}

InitMerge ==
  /\ FTIdle /\ MapIdle /\ ScanIdle
  /\ LoadEmptyState
  /\ myFreeTransfersMemory \in MergeMemory
  /\ localStorageFt \in MergeStored
  /\ pathEntryId \in MergePathEntryIds
  /\ navEntryId = Null
  /\ currentEventId = 2
  /\ nextEventId = JsNum(3)

NextMerge ==
  \/ \E entryId \in Entries :
       CallLoadEntryLeagueData(entryId) /\ UNCHANGED <<ftVars, mapVars, scanVars>>
  \/ \E tid \in DOMAIN tasks :
       HistoryFetchSettlesWith(tid, MergeHistoryAnswers, {"http"})
         /\ UNCHANGED <<ftVars, mapVars, scanVars>>
  \/ \E tid \in DOMAIN tasks : TransfersFetchSettles(tid) /\ UNCHANGED <<ftVars, mapVars, scanVars>>
  \/ \E tid \in DOMAIN tasks :
       MyTeamFetchSettlesWith(tid, MergeMyTeamAnswers, {"http"})
         /\ UNCHANGED <<ftVars, mapVars, scanVars>>
  \/ \E tid \in DOMAIN tasks : LeagueMyEntryIdSettled(tid) /\ UNCHANGED <<ftVars, mapVars, scanVars>>
  \/ \E tid \in DOMAIN tasks :
       LeaguePicksSettleWith(tid, MergePicksAnswers, {"http"})
         /\ UNCHANGED <<ftVars, mapVars, scanVars>>
  \/ \E tid \in DOMAIN tasks : LeagueAllSettled(tid) /\ UNCHANGED <<ftVars, mapVars, scanVars>>

SpecMerge == InitMerge /\ [][NextMerge]_vars

\* task tid is a loadEntryLeagueData computation that has built its row from
\* a picks response
RowBuilt(tid) ==
  /\ tasks[tid].fn = "loadEntryLeagueData"
  /\ tasks[tid].done
  /\ ~tasks[tid].failed

\* the entry of the row is the user's own entry
OwnRow(tid) == myEntryId = JsNum(tasks[tid].key[1])

\* the historical simulation of the row
SimulationOf(tid) ==
  computeRemainingTransfers(valueOf(LoaderState, tasks[tid].aw[1]),
                            JsNum(tasks[tid].key[2]),
                            [activeChipRaw |-> tasks[tid].data.active_chip,
                             eventTransfers |-> tasks[tid].data.event_transfers,
                             eventTransfersCost |-> tasks[tid].data.event_transfers_cost])

\* limit - made of a my-team result, not below 0; {} when there is no result
LiveOf(best) ==
  IF best.isNull THEN {}
  ELSE {IF best.limit - best.made > 0 THEN best.limit - best.made ELSE 0}

\* the values of the candidates that are available for the row of task tid
ManualValues == {MANUAL_MY_REMAINING_FT}
LiveCurrentValues(tid) == LiveOf(valueOf(LoaderState, tasks[tid].aw[3]))
LiveNextValues(tid) == LiveOf(valueOf(LoaderState, tasks[tid].aw[4]))
ProjectedValues(tid) == {IF v + 1 > 5 THEN 5 ELSE v + 1 : v \in LiveCurrentValues(tid)}
MemoryValues == IF IsFinite(myFreeTransfersMemory) THEN {myFreeTransfersMemory.v} ELSE {}
\* the persisted value counts when the record has no entryId field or its
\* Number(entryId) is the entry of the row (Number(null) is 0)
PersistedValues(tid) ==
  IF /\ localStorageFt.present
     /\ \/ localStorageFt.entryId = Undefined
        \/ ToNumber(localStorageFt.entryId) = JsNum(tasks[tid].key[1])
    THEN {localStorageFt.value} ELSE {}
SimulationValues(tid) == IF IsFinite(SimulationOf(tid)) THEN {SimulationOf(tid).v} ELSE {}

AvailableValues(tid) ==
  ManualValues \cup LiveCurrentValues(tid) \cup LiveNextValues(tid)
    \cup ProjectedValues(tid) \cup MemoryValues \cup PersistedValues(tid)
    \cup SimulationValues(tid)

SetMax(V) == CHOOSE m \in V : \A v \in V : v <= m

C16_WitnessAbove ==
  \E tid \in DOMAIN tasks :
    /\ RowBuilt(tid) /\ OwnRow(tid)
    /\ LiveCurrentValues(tid) = {1}
    /\ PersistedValues(tid) = {4}
    /\ tasks[tid].res.remainingTransfers = JsNum(4)

\* the my-team fetches for the entry of task tid, and the fetches of the
\* transfers page
CrossCheckFetches(tid) ==
  {k \in DOMAIN fetchCount :
     \/ k[1] = "loadMyTeamTransfers" /\ k[2][1] = tasks[tid].key[1]
     \/ k[1] = "loadMyFreeTransfersFromTransfersHtml"}

\* the three cross-check operands of Promise.all are Promise.resolve(null)
NoCrossCheckAsked(tid) ==
  /\ tasks[tid].aw[3] = Resolved(NoBest)
  /\ tasks[tid].aw[4] = Resolved(NoBest)
  /\ tasks[tid].aw[5] = Resolved(Null)

\* the row of task tid had the remembered value been m and the persisted
\* value v
RowWith(tid, m, v) ==
  leagueRow([LoaderState EXCEPT !.myFreeTransfersMemory = m, !.localStorageFt.value = v],
            tasks[tid])

\* C17: for an entry that is not the user's own no my-team request and no
\* transfers-page request is issued, the remainingTransfers of the row is the
\* simulation's result, and the row is the same whatever the remembered and
\* the persisted value are (the manual override has no part in it).
C17_OtherEntrySimulationOnly ==
  \A tid \in DOMAIN tasks :
    /\ (/\ tasks[tid].fn = "loadEntryLeagueData"
        /\ tasks[tid].pc # "awaitMyEntryId"
        /\ ~OwnRow(tid)) => (NoCrossCheckAsked(tid) /\ CrossCheckFetches(tid) = {})
    /\ (RowBuilt(tid) /\ ~OwnRow(tid)) =>
         /\ tasks[tid].res.remainingTransfers = SimulationOf(tid)
         /\ \A m \in MergeMemory, v \in 0..5 : RowWith(tid, m, v) = tasks[tid].res

\* the row of another entry while a value is remembered and a value above
\* the simulation's is persisted without an entry id
C17_Witness ==
  \E tid \in DOMAIN tasks :
    /\ RowBuilt(tid) /\ ~OwnRow(tid)
    /\ myFreeTransfersMemory = JsNum(3)
    /\ localStorageFt.present /\ localStorageFt.value = 5
    /\ tasks[tid].res.remainingTransfers = JsNum(1)
    /\ CrossCheckFetches(tid) = {}

\* the cross-check candidates before the zero filter, in the order of the
\* list: manual, current, next, projected, memory, persisted, page
RawCandidates(tid) ==
  LET one(V) == IF V = {} THEN Null ELSE JsNum(CHOOSE v \in V : TRUE) IN
  <<one(ManualValues), one(LiveCurrentValues(tid)), one(LiveNextValues(tid)),
    one(ProjectedValues(tid)), ToNumber(myFreeTransfersMemory),
    one(PersistedValues(tid)), ToNumber(valueOf(LoaderState, tasks[tid].aw[5]))>>

\* the list that the merge of task tid was handed
PassedCandidates(tid) == mergeCandidates(LoaderState, tasks[tid], SimulationOf(tid))

\* C18: when the entry made at least one transfer in the gameweek, every
\* cross-check candidate whose value is exactly 0 is null in the list handed
\* to the merge; every other candidate, and every candidate when no transfer
\* was made, is handed over as it is.
C18_ZeroSuppression ==
  \A tid \in DOMAIN tasks :
    (RowBuilt(tid) /\ OwnRow(tid)) =>
      \A i \in 1..7 :
        PassedCandidates(tid)[i] =
          (IF tasks[tid].res.transfersMade > 0 /\ RawCandidates(tid)[i] = JsNum(0)
             THEN Null ELSE RawCandidates(tid)[i])

\* transfers were made and the my-team endpoint says 0: not handed over
C18_Witness ==
  \E tid \in DOMAIN tasks :
    /\ RowBuilt(tid) /\ OwnRow(tid)
    /\ tasks[tid].res.transfersMade > 0
    /\ RawCandidates(tid)[2] = JsNum(0)
    /\ PassedCandidates(tid)[2] = Null

\* no transfer was made and the my-team endpoint says 0: handed over
C18_WitnessKept ==
  \E tid \in DOMAIN tasks :
    /\ RowBuilt(tid) /\ OwnRow(tid)
    /\ tasks[tid].res.transfersMade = 0
    /\ RawCandidates(tid)[2] = JsNum(0)
    /\ PassedCandidates(tid)[2] = JsNum(0)

\* C19: the remainingTransfers of every row that loadEntryLeagueData produces
\* is an integer in 0..5 or the marker "n/a".
C19_RowRange ==
  \A tid \in DOMAIN tasks :
    (tasks[tid].fn = "loadEntryLeagueData" /\ tasks[tid].done) =>
      \/ tasks[tid].res.remainingTransfers = NA
      \/ /\ IsFinite(tasks[tid].res.remainingTransfers)
         /\ tasks[tid].res.remainingTransfers.v \in 0..5

\* the my-team endpoint answers limit 7, made 0: the row says 7
C19_Witness ==
  \E tid \in DOMAIN tasks :
    /\ RowBuilt(tid) /\ OwnRow(tid)
    /\ LiveCurrentValues(tid) = {7}
    /\ tasks[tid].res.remainingTransfers = JsNum(7)


(***************************************************************************)
(* loadMiniLeagueOwnership with several rivals: specification and          *)
(* properties.  The page names entry 3 as the user's; the standings list   *)
(* entries 1, 2, 3 on one page and entry 4 on another.                     *)
(***************************************************************************)
OwnStandingsAnswers == {<<1, 2, 3>>, <<4>>}

OwnPicksAnswers ==
  {[picks |-> <<[element |-> JsNum(7), is_captain |-> TRUE],
                [element |-> JsNum(8), is_captain |-> FALSE]>>, active_chip |-> ""],
   [picks |-> <<[element |-> JsNum(8), is_captain |-> TRUE],
                [element |-> Undefined, is_captain |-> FALSE]>>, active_chip |-> "3XC"],
   [picks |-> <<[element |-> JsNum(7), is_captain |-> FALSE]>>, active_chip |-> "3xc"]}

InitOwn ==
  /\ FTIdle /\ MapIdle /\ ScanIdle
  /\ LoadIdleState
  /\ localStorageFt = NoStoredFt
  /\ pathEntryId = JsNum(3)
  /\ navEntryId = Null
  /\ currentEventId = 1
  /\ nextEventId = JsNum(2)

NextOwn ==
  \/ CallLoadMiniLeagueOwnership(currentEventId) /\ UNCHANGED <<ftVars, mapVars, scanVars>>
  \/ \E tid \in DOMAIN tasks :
       OwnershipMyEntryIdSettled(tid) /\ UNCHANGED <<ftVars, mapVars, scanVars>>
  \/ \E tid \in DOMAIN tasks :
       StandingsPageSettlesWith(tid, OwnStandingsAnswers, {"http"})
         /\ UNCHANGED <<ftVars, mapVars, scanVars>>
  \/ \E tid \in DOMAIN tasks :
       RivalPicksSettleWith(tid, OwnPicksAnswers, Failures)
         /\ UNCHANGED <<ftVars, mapVars, scanVars>>

SpecOwn == InitOwn /\ [][NextOwn]_vars

\* task tid is a loadMiniLeagueOwnership computation that has built a
\* snapshot with percentages
SnapshotBuilt(tid) ==
  /\ tasks[tid].fn = "loadMiniLeagueOwnership"
  /\ tasks[tid].done
  /\ ~tasks[tid].failed

\* no rival was counted twice
RivalsDistinct(tid) ==
  \A i, j \in 1..Len(tasks[tid].successful) :
    tasks[tid].successful[i] = tasks[tid].successful[j] => i = j

\* the fraction pct is count / n * 100
IsShareOf(pct, count, n) == pct.num * n = count * 100 * pct.den

\* C20: in a snapshot built from n >= 1 successfully fetched rivals (n is the
\* number of picks responses that were taken, failed ones not counted) every
\* player's ownershipPct, captainPct and tripleCaptainPct are the sizes of its
\* ownedBy, captainedBy and tripleCaptainedBy sets divided by n, times 100,
\* and eoPct is their sum; when no rival is listed twice n is the number of
\* rival teams recorded and the three sets are the rivals that picked,
\* captained and triple-captained the player.
C20_OwnershipPercentages ==
  \A tid \in DOMAIN tasks :
    SnapshotBuilt(tid) =>
      LET snap == tasks[tid].res
          n == snap.totalRivals
          teams == snap.rivalTeams
      IN /\ n >= 1
         /\ n = Len(tasks[tid].successful)
         /\ RivalsDistinct(tid) => n = Cardinality(DOMAIN teams)
         /\ \A playerId \in DOMAIN snap.playerOwnership :
              LET d == snap.playerOwnership[playerId]
                  k == Cardinality(d.ownedBy)
                  c == Cardinality(d.captainedBy)
                  t == Cardinality(d.tripleCaptainedBy)
              IN /\ IsShareOf(d.ownershipPct, k, n)
                 /\ IsShareOf(d.captainPct, c, n)
                 /\ IsShareOf(d.tripleCaptainPct, t, n)
                 /\ IsShareOf(d.eoPct, k + c + t, n)
                 /\ RivalsDistinct(tid) =>
                      /\ d.ownedBy = {e \in DOMAIN teams : playerId \in teams[e].picks}
                      /\ d.captainedBy = {e \in DOMAIN teams : teams[e].captain = JsNum(playerId)}
                      /\ d.tripleCaptainedBy =
                           {e \in DOMAIN teams :
                              teams[e].captain = JsNum(playerId) /\ teams[e].chip = "3xc"}

\* two rivals were fetched, 1 and 4 (the fetch of rival 2 failed): player 8 is
\* owned by both and triple-captained by one (ownership 100, captain 50, triple captain 50,
\* effective ownership 200), player 7 is owned and captained by one
C20_Witness ==
  \E tid \in DOMAIN tasks :
    /\ SnapshotBuilt(tid)
    /\ tasks[tid].res.totalRivals = 2
    /\ DOMAIN tasks[tid].res.rivalTeams = {1, 4}
    /\ DOMAIN tasks[tid].res.playerOwnership = {7, 8}
    /\ tasks[tid].res.playerOwnership[8].ownedBy = {1, 4}
    /\ tasks[tid].res.playerOwnership[8].tripleCaptainedBy = {4}
    /\ IsShareOf(tasks[tid].res.playerOwnership[8].eoPct, 4, 2)
    /\ tasks[tid].res.playerOwnership[7].captainedBy = {1}
    /\ IsShareOf(tasks[tid].res.playerOwnership[7].ownershipPct, 1, 2)


\* the picks fetch of a rival of task tid fails (non-2xx, rejection or a body
\* that cannot be parsed)
RivalFetchFails(tid) == RivalPicksSettleWith(tid, {}, Failures)

\* C21: when the picks fetch of a rival fails, the list of the rivals counted,
\* every ownedBy/captainedBy/tripleCaptainedBy set and every recorded team
\* stay as they are, the other fetches in flight stay in flight, and the
\* computation either goes on or ends with the snapshot of the rivals counted
\* so far (the empty snapshot when there is none).
C21_RivalFailureIsolated ==
  [][\A tid \in DOMAIN tasks :
       RivalFetchFails(tid) =>
         /\ tasks'[tid].successful = tasks[tid].successful
         /\ tasks'[tid].playerOwnershipMap = tasks[tid].playerOwnershipMap
         /\ tasks'[tid].rivalTeamsMap = tasks[tid].rivalTeamsMap
         /\ Len(tasks'[tid].inflight) + Len(tasks'[tid].queue)
              = Len(tasks[tid].inflight) + Len(tasks[tid].queue) - 1
         /\ IF Len(tasks'[tid].inflight) > 0
              THEN tasks'[tid].pc = "rivals"
              ELSE /\ tasks'[tid].done
                   /\ tasks'[tid].res.totalRivals = Len(tasks[tid].successful)
                   /\ tasks'[tid].res.rivalTeams = tasks[tid].rivalTeamsMap
                   /\ DOMAIN tasks'[tid].res.playerOwnership
                        = DOMAIN tasks[tid].playerOwnershipMap]_vars

\* the fetch of rival 2 failed and the snapshot is that of rival 1 alone
C21_Witness ==
  \E tid \in DOMAIN tasks :
    /\ SnapshotBuilt(tid)
    /\ tasks[tid].res.totalRivals = 1
    /\ DOMAIN tasks[tid].res.rivalTeams = {1}
    /\ \A playerId \in DOMAIN tasks[tid].res.playerOwnership :
         tasks[tid].res.playerOwnership[playerId].ownedBy = {1}
    /\ fetchCount[<<"loadMiniLeagueOwnership", tasks[tid].key>>] = 3


(***************************************************************************)
(* The consumers of the ownership snapshot: specification and properties.  *)
(* The page names entry 3 as the user's, whose team is player 7; the       *)
(* standings list the user alone, or rivals 1 and 2.                       *)
(***************************************************************************)
UseStandingsAnswers == {<<3>>, <<1, 2>>}

UsePicksAnswers ==
  {[picks |-> <<[element |-> JsNum(7), is_captain |-> TRUE]>>, active_chip |-> "3xc"],
   [picks |-> <<[element |-> JsNum(8), is_captain |-> TRUE]>>, active_chip |-> ""]}

InitUse == InitOwn

NextUse ==
  \/ CallCalculateDifferentialInsights(currentEventId)
       /\ UNCHANGED <<ftVars, mapVars, scanVars>>
  \/ \E tid \in DOMAIN tasks :
       OwnershipMyEntryIdSettled(tid) /\ UNCHANGED <<ftVars, mapVars, scanVars>>
  \/ \E tid \in DOMAIN tasks :
       StandingsPageSettlesWith(tid, UseStandingsAnswers, Failures)
         /\ UNCHANGED <<ftVars, mapVars, scanVars>>
  \/ \E tid \in DOMAIN tasks :
       RivalPicksSettleWith(tid, UsePicksAnswers, Failures)
         /\ UNCHANGED <<ftVars, mapVars, scanVars>>
  \/ \E tid \in DOMAIN tasks :
       CurrentTeamMyEntryIdSettled(tid) /\ UNCHANGED <<ftVars, mapVars, scanVars>>
  \/ \E tid \in DOMAIN tasks :
       CurrentTeamFetchSettles(tid) /\ UNCHANGED <<ftVars, mapVars, scanVars>>
  \/ \E tid \in DOMAIN tasks :
       InsightsAllSettled(tid) /\ UNCHANGED <<ftVars, mapVars, scanVars>>

SpecUse == InitUse /\ [][NextUse]_vars

\* task tid is a finished calculateDifferentialInsights
InsightsBuilt(tid) == tasks[tid].fn = "calculateDifferentialInsights" /\ tasks[tid].done

\* the snapshot and the team that task tid was handed by Promise.all
SnapshotOf(tid) == valueOf(LoaderState, tasks[tid].aw[1])
TeamOf(tid) == valueOf(LoaderState, tasks[tid].aw[2])

\* C22: when the snapshot counts no rival it is the empty snapshot, and the
\* consumers report nothing about ownership: the badge of every player has no
\* effective ownership and no ownership label, calculateRivalDiffData has no
\* data for any entry, and calculateDifferentialInsights lists none of the
\* user's players as a differential and counts no unique pick.
C22_EmptySnapshotUnavailable ==
  \A tid \in DOMAIN tasks :
    (InsightsBuilt(tid) /\ SnapshotOf(tid).totalRivals = 0) =>
      /\ SnapshotOf(tid) = EmptySnapshot
      /\ \A id \in {7, 8} :
           /\ ownershipBadge(SnapshotOf(tid), TeamOf(tid), id).eoPct = Null
           /\ ownershipBadge(SnapshotOf(tid), TeamOf(tid), id).diffBadge = ""
      /\ \A entryId \in 1..3 :
           calculateRivalDiffData(entryId, TeamOf(tid), SnapshotOf(tid)) = Null
      /\ tasks[tid].res.myDifferentials = <<>>
      /\ tasks[tid].res.uniquePicks = 0

\* the picks fetches of both rivals failed and the user's team is player 7:
\* the insights list player 7 as a differential owned by 0% and count it as a
\* unique pick
C22_Witness ==
  \E tid \in DOMAIN tasks :
    /\ InsightsBuilt(tid)
    /\ SnapshotOf(tid) = EmptySnapshot
    /\ fetchCount[<<"loadMiniLeagueOwnership", <<currentEventId, 0>>>>] = 3
    /\ TeamOf(tid) = {7}
    /\ tasks[tid].res.myDifferentials = <<[playerId |-> 7, ownershipPct |-> Pct(0, 1), ownedBy |-> 0]>>
    /\ tasks[tid].res.uniquePicks = 1
    /\ ownershipBadge(SnapshotOf(tid), TeamOf(tid), 7).diffBadge = ""


(***************************************************************************)
(* The user's own entry id in loadMiniLeagueOwnership: specification and   *)
(* properties.  The standings list entries 1, 3, 4; the page address, the  *)
(* navigation link and the stored record may each name an entry.           *)
(***************************************************************************)
IdStoredInputs ==
  {NoStoredFt} \cup
  {[present |-> TRUE, value |-> 1, entryId |-> e] : e \in {JsNum(2), JsNum(3), Null}}

IdStandingsAnswers == {<<1, 3, 4>>}

InitId ==
  /\ FTIdle /\ MapIdle /\ ScanIdle
  /\ LoadIdleState
  /\ pathEntryId \in {Null, JsNum(3), JsNum(4)}
  /\ navEntryId \in {Null, JsNum(3)}
  /\ localStorageFt \in IdStoredInputs
  /\ currentEventId = 1
  /\ nextEventId = JsNum(2)

NextId ==
  \/ CallLoadMiniLeagueOwnership(currentEventId) /\ UNCHANGED <<ftVars, mapVars, scanVars>>
  \/ \E tid \in DOMAIN tasks : MeFetchSettles(tid) /\ UNCHANGED <<ftVars, mapVars, scanVars>>
  \/ \E tid \in DOMAIN tasks :
       OwnershipMyEntryIdSettled(tid) /\ UNCHANGED <<ftVars, mapVars, scanVars>>
  \/ \E tid \in DOMAIN tasks :
       StandingsPageSettlesWith(tid, IdStandingsAnswers, {"http"})
         /\ UNCHANGED <<ftVars, mapVars, scanVars>>
  \/ \E tid \in DOMAIN tasks :
       RivalPicksSettleWith(tid, RivalPicksAnswers, {"http"})
         /\ UNCHANGED <<ftVars, mapVars, scanVars>>

SpecId == InitId /\ [][NextId]_vars

\* the entry ids that the four sources yield: the page address, the
\* navigation link, the stored record and the answer of the /me request
OwnIdsObtained ==
  LET stored == IF localStorageFt.present THEN ToNumber(localStorageFt.entryId) ELSE NaN
      answered == {tasks[m].res : m \in {n \in DOMAIN tasks :
                                           tasks[n].fn = "loadMyEntryId" /\ tasks[n].done}}
  IN {y.v : y \in {x \in {pathEntryId, navEntryId, stored} \cup answered :
                     IsFinite(x) /\ x.v > 0}}

\* entry id takes part in the snapshot snap as a rival
CountedAsRival(tid, id) ==
  LET snap == tasks[tid].res IN
  \/ Has(snap.rivalTeams, id)
  \/ \E i \in 1..Len(tasks[tid].successful) : tasks[tid].successful[i] = id
  \/ \E p \in DOMAIN snap.playerOwnership :
       id \in snap.playerOwnership[p].ownedBy \cup snap.playerOwnership[p].captainedBy
                \cup snap.playerOwnership[p].tripleCaptainedBy

\* C23: an entry id that any of the four sources yields as the user's own is
\* not a key of rivalTeams, is in no ownedBy/captainedBy/tripleCaptainedBy set
\* and is not among the rivals counted in totalRivals.
C23_OwnEntryNotRival ==
  \A tid \in DOMAIN tasks :
    SnapshotBuilt(tid) => \A id \in OwnIdsObtained : ~CountedAsRival(tid, id)

\* the page is that of entry 4 and the navigation link names entry 3: entry 4
\* is left out and entry 3 is a rival of the snapshot
C23_Witness ==
  \E tid \in DOMAIN tasks :
    /\ SnapshotBuilt(tid)
    /\ pathEntryId = JsNum(4) /\ navEntryId = JsNum(3)
    /\ tasks[tid].myId = JsNum(4)
    /\ ~CountedAsRival(tid, 4)
    /\ Has(tasks[tid].res.rivalTeams, 3)
    /\ tasks[tid].res.totalRivals = 2


\* task tid is a loadMiniLeagueOwnership whose await of loadMyEntryId() is over
OwnIdResolved(tid) ==
  tasks[tid].fn = "loadMiniLeagueOwnership" /\ tasks[tid].pc # "awaitMyEntryId"

\* what loadMyEntryId() gave task tid
ResolvedOf(tid) == valueOf(LoaderState, tasks[tid].aw[1])

\* the id of the stored record as getCachedMyFreeTransfers reads it
StoredEntryId == getCachedMyFreeTransfers(LoaderState).entryId

\* the number of /me requests made
MeRequests == MapGetOr(fetchCount, <<"loadMyEntryId", <<0, 0>>>>, 0)

\* the first finite element of a list of candidates, Null when there is none
RECURSIVE firstFinite(_)
firstFinite(cands) ==
  IF cands = <<>> THEN Null
  ELSE IF IsFinite(Head(cands)) THEN Head(cands)
  ELSE firstFinite(Tail(cands))

\* C24 as stated: the sources are tried in the order page address, /me
\* request, navigation link, stored record; so whenever the page address
\* yields no id the /me request is made, and the navigation link and the
\* stored record are used only when it yields none.
C24_AsStated ==
  \A tid \in DOMAIN tasks :
    OwnIdResolved(tid) =>
      IF IsFinite(pathEntryId) THEN ResolvedOf(tid) = pathEntryId /\ MeRequests = 0
      ELSE MeRequests >= 1

\* C24: loadMyEntryId tries the page address, then the navigation link, then
\* the stored record (its entryId as read back by Number), and makes the /me
\* request only when these three yield no finite number; it returns the
\* first that yields one.  loadMiniLeagueOwnership takes that id as the own
\* id when it is positive and has no own id otherwise.
C24_SourceOrder ==
  \A tid \in DOMAIN tasks :
    OwnIdResolved(tid) =>
      LET local == firstFinite(<<pathEntryId, navEntryId, StoredEntryId>>) IN
      /\ IF IsFinite(local)
           THEN ResolvedOf(tid) = local /\ MeRequests = 0
           ELSE MeRequests >= 1
      /\ tasks[tid].myId = IF IsFinite(ResolvedOf(tid)) /\ ResolvedOf(tid).v > 0
                             THEN ResolvedOf(tid) ELSE Undefined

\* the page address names no entry, the navigation link names entry 3 and the
\* stored record entry 2: the own id is 3 and no /me request was made
C24_Witness ==
  \E tid \in DOMAIN tasks :
    /\ OwnIdResolved(tid)
    /\ pathEntryId = Null /\ navEntryId = JsNum(3) /\ StoredEntryId = JsNum(2)
    /\ tasks[tid].myId = JsNum(3)
    /\ MeRequests = 0

\* no local source names an entry and the /me request answered entry 1
C24_WitnessApi ==
  \E tid \in DOMAIN tasks :
    /\ OwnIdResolved(tid)
    /\ pathEntryId = Null /\ navEntryId = Null /\ ~localStorageFt.present
    /\ MeRequests = 1
    /\ tasks[tid].myId = JsNum(1)


(***************************************************************************)
(* loadPlayerData: specification and properties.  One call for player 7    *)
(* is answered with a match history: every order of the rows of one of     *)
(* the lists below.  Expected goals are in hundredths.                     *)
(***************************************************************************)
HistoryRow(round, minutes) ==
  [round |-> JsNum(round), minutes |-> JsNum(minutes),
   expected_goals |-> Undefined, expected_assists |-> Undefined,
   clean_sheets |-> JsNum(0), saves |-> JsNum(0),
   defensive_contribution |-> Undefined, defensive_contributions |-> Undefined,
   def_contribution |-> Undefined, expected_goals_conceded |-> Undefined]

\* six matches played in six gameweeks
SixPlayed ==
  <<[HistoryRow(1, 90) EXCEPT !.clean_sheets = JsNum(1), !.saves = JsNum(3),
                              !.expected_goals = JsNum(50),
                              !.defensive_contribution = JsNum(12),
                              !.expected_goals_conceded = JsNum(210)],
    [HistoryRow(2, 90) EXCEPT !.expected_goals = JsNum(10), !.def_contribution = JsNum(10)],
    [HistoryRow(3, 45) EXCEPT !.expected_goals_conceded = JsNum(100)],
    [HistoryRow(4, 90) EXCEPT !.saves = JsNum(7), !.defensive_contributions = JsNum(9)],
    [HistoryRow(5, 90) EXCEPT !.clean_sheets = JsNum(1), !.defensive_contribution = Null],
    [HistoryRow(6, 60) EXCEPT !.expected_assists = JsNum(30),
                              !.expected_goals_conceded = JsNum(150)]>>

\* six matches played in five gameweeks: two of them in gameweek 1
DoubleGameweek ==
  <<[HistoryRow(1, 90) EXCEPT !.clean_sheets = JsNum(1), !.expected_goals = JsNum(80)],
    [HistoryRow(1, 30) EXCEPT !.defensive_contribution = JsNum(11)],
    HistoryRow(2, 90),
    [HistoryRow(3, 90) EXCEPT !.saves = JsNum(4)],
    HistoryRow(4, 90),
    [HistoryRow(5, 90) EXCEPT !.expected_goals_conceded = JsNum(90)]>>

\* four matches played and two not, the rows of which carry values all the same
FourPlayed ==
  <<[HistoryRow(1, 90) EXCEPT !.defensive_contribution = JsNum(10)],
    [HistoryRow(2, 0) EXCEPT !.defensive_contribution = JsNum(15), !.clean_sheets = JsNum(1),
                             !.expected_goals_conceded = JsNum(120), !.saves = JsNum(6)],
    [HistoryRow(3, 90) EXCEPT !.expected_goals = JsNum(40), !.saves = JsNum(5)],
    [HistoryRow(4, 1) EXCEPT !.clean_sheets = JsNum(1)],
    [HistoryRow(5, 90) EXCEPT !.minutes = Null, !.expected_goals = JsNum(70)],
    [HistoryRow(6, 90) EXCEPT !.expected_goals_conceded = JsNum(55),
                              !.defensive_contribution = Null,
                              !.defensive_contributions = JsNum(10)]>>

\* no match played: the rows carry values all the same
NonePlayed ==
  <<[HistoryRow(1, 0) EXCEPT !.clean_sheets = JsNum(1), !.expected_goals = JsNum(60),
                             !.defensive_contribution = JsNum(14),
                             !.expected_goals_conceded = JsNum(80), !.saves = JsNum(3)],
    [HistoryRow(2, 0) EXCEPT !.minutes = Undefined, !.expected_assists = JsNum(20)]>>

\* matches whose defensive-contribution and goals-conceded fields hold no number
NoNumbers ==
  <<[HistoryRow(1, 90) EXCEPT !.defensive_contribution = NaN,
                              !.expected_goals_conceded = NaN],
    [HistoryRow(2, 90) EXCEPT !.defensive_contributions = Null],
    HistoryRow(3, 90)>>

RowLists == {SixPlayed, DoubleGameweek, FourPlayed, NonePlayed, NoNumbers, <<>>}

\* the orders of n rows
OrdersOf(n) == {f \in [1..n -> 1..n] : \A i, j \in 1..n : f[i] = f[j] => i = j}

PlayerHistories ==
  UNION {{[i \in 1..Len(rows) |-> rows[f[i]]] : f \in OrdersOf(Len(rows))} : rows \in RowLists}

\* the gameweek of the page: none, one with rows, one without
StatsEvents == {Null, JsNum(1), JsNum(2), JsNum(7)}

InitStats == FTIdle /\ MapIdle /\ ScanIdle /\ LoadIdle

NextStats ==
  \/ /\ tasks = <<>>
     /\ \E ev \in StatsEvents : CallLoadPlayerData(7, ev)
     /\ UNCHANGED <<ftVars, mapVars, scanVars>>
  \/ \E tid \in DOMAIN tasks :
       ElementSummarySettlesWith(tid, PlayerHistories, Failures)
         /\ UNCHANGED <<ftVars, mapVars, scanVars>>

SpecStats == InitStats /\ [][NextStats]_vars

\* task tid is a loadPlayerData that has computed a snapshot
StatsBuilt(tid) ==
  tasks[tid].fn = "loadPlayerData" /\ tasks[tid].done /\ ~tasks[tid].failed

\* the rows of hist with minutes > 0, by their place in hist
PlayedIn(hist) ==
  {i \in DOMAIN hist : IsFinite(NumberOr0(hist[i].minutes)) /\ NumberOr0(hist[i].minutes).v > 0}

RoundIn(hist, i) == NumberOr0(hist[i].round).v

\* hist with the rows at i and i + 1 exchanged
SwapAt(hist, i) ==
  [k \in DOMAIN hist |-> IF k = i THEN hist[i + 1] ELSE IF k = i + 1 THEN hist[i] ELSE hist[k]]

\* the sum of the function val over the set
RECURSIVE sumSet(_, _)
sumSet(set, val) ==
  IF set = {} THEN 0
  ELSE LET x == CHOOSE x \in set : TRUE IN val[x] + sumSet(set \ {x}, val)

\* the values of the snapshot snap that are taken over the window are those
\* of the rows of hist at the places W
WindowIs(snap, hist, W) ==
  LET dc == [i \in DOMAIN hist |-> pickDC(hist[i])]
      xgc == [i \in DOMAIN hist |-> pickXGC(hist[i])]
      minutes == [i \in DOMAIN hist |-> NumberOr0(hist[i].minutes).v]
      xgi == [i \in DOMAIN hist |-> NumberOr0(hist[i].expected_goals).v
                                      + NumberOr0(hist[i].expected_assists).v]
      savePoints == [i \in DOMAIN hist |->
                       IF IsFinite(NumberOr0(hist[i].saves)) /\ NumberOr0(hist[i].saves).v > 0
                         THEN NumberOr0(hist[i].saves).v \div 3 ELSE 0]
      xgcNum == [i \in DOMAIN hist |-> IF xgc[i] = Null THEN 0 ELSE xgc[i].v]
      n == Cardinality(W)
  IN /\ snap.games = IF n = 0 THEN 1 ELSE n
     /\ snap.cs5 = Cardinality({i \in W : NumberOr0(hist[i].clean_sheets).v > 0})
     /\ snap.hasDC = (\E i \in W : dc[i] # Null)
     /\ snap.dc10Matches5 = Cardinality({i \in W : dc[i] # Null /\ dc[i].v >= 10})
     /\ snap.savePoints5 = sumSet(W, savePoints)
     /\ snap.hasXGC = (\E i \in W : xgc[i] # Null)
     /\ snap.xgcPerMatch5 = RoundDiv(sumSet(W, xgcNum), IF n = 0 THEN 1 ELSE n)
     /\ snap.xgi90 = IF sumSet(W, minutes) > 0
                       THEN RoundDiv(sumSet(W, xgi) * 90, sumSet(W, minutes)) ELSE 0

\* W holds five played rows of hist, or all when there are fewer, and no
\* played row outside W has a higher round than a row of W
TopRounds(hist, W) ==
  /\ W \subseteq PlayedIn(hist)
  /\ Cardinality(W) = Min(5, Cardinality(PlayedIn(hist)))
  /\ \A i \in W, j \in PlayedIn(hist) \ W : RoundIn(hist, i) >= RoundIn(hist, j)

\* the played rows of hist that fewer than five played rows follow, in the
\* order of the rounds and, for equal rounds, of the places in hist
LastPlayed(hist) ==
  {i \in PlayedIn(hist) :
     Cardinality({j \in PlayedIn(hist) :
                    \/ RoundIn(hist, j) > RoundIn(hist, i)
                    \/ RoundIn(hist, j) = RoundIn(hist, i) /\ j > i}) < 5}

\* C25 as stated: the snapshot is that of the five played rows with the
\* highest rounds (all played rows when there are fewer), and it is the same
\* for every order of the rows: exchanging two neighbouring rows, from which
\* every order is reached, does not change it.
C25_AsStated ==
  \A tid \in DOMAIN tasks :
    StatsBuilt(tid) =>
      LET hist == tasks[tid].hist
          gw == tasks[tid].key[2]
      IN /\ \E W \in SUBSET PlayedIn(hist) :
              TopRounds(hist, W) /\ WindowIs(tasks[tid].res, hist, W)
         /\ \A i \in 1..(Len(hist) - 1) :
              playerSnapshot(SwapAt(hist, i), gw) = tasks[tid].res

\* C25: the snapshot is that of the last five played rows in the order of
\* the rounds, rows of the same round in the order of the input (all played
\* rows when there are fewer than five); these are five played rows with the
\* highest rounds, and the snapshot is the same for every order of the input
\* that keeps the rows of equal round in their order.
C25_WindowSelection ==
  \A tid \in DOMAIN tasks :
    StatsBuilt(tid) =>
      LET hist == tasks[tid].hist
          gw == tasks[tid].key[2]
      IN /\ TopRounds(hist, LastPlayed(hist))
         /\ WindowIs(tasks[tid].res, hist, LastPlayed(hist))
         /\ \A i \in 1..(Len(hist) - 1) :
              RoundIn(hist, i) # RoundIn(hist, i + 1) =>
                playerSnapshot(SwapAt(hist, i), gw) = tasks[tid].res

\* six played rows arrive in descending order of the rounds: the row of
\* round 1, with the only save point short of two, is left out
C25_Witness ==
  \E tid \in DOMAIN tasks :
    /\ StatsBuilt(tid)
    /\ Len(tasks[tid].hist) = 6
    /\ \A i \in 1..6 : tasks[tid].hist[i] = SixPlayed[7 - i]
    /\ LastPlayed(tasks[tid].hist) = 1..5
    /\ tasks[tid].res.games = 5
    /\ tasks[tid].res.cs5 = 1
    /\ tasks[tid].res.savePoints5 = 2

\* four played rows of six: all four are taken
C25_WitnessFew ==
  \E tid \in DOMAIN tasks :
    /\ StatsBuilt(tid)
    /\ Cardinality(PlayedIn(tasks[tid].hist)) = 4
    /\ Len(tasks[tid].hist) = 6
    /\ tasks[tid].res.games = 4


C26_WitnessEmpty ==
  \E tid \in DOMAIN tasks :
    StatsBuilt(tid) /\ tasks[tid].hist = <<>> /\ tasks[tid].res.games = 1


\* the numbers that a row carries under the accepted names of the
\* defensive-contribution field
DcNumbers(m) ==
  {x.v : x \in {y \in {m.defensive_contribution, m.defensive_contributions, m.def_contribution} :
                  IsFinite(y)}}

C27_WitnessUnavailable ==
  \E tid \in DOMAIN tasks :
    /\ StatsBuilt(tid)
    /\ tasks[tid].hist = NoNumbers
    /\ ~tasks[tid].res.hasDC
    /\ tasks[tid].res.dc10Matches5 = 0
    /\ badgeTexts(tasks[tid].res).dc5 = NA


\* the rows of hist whose round is gw, by their place in hist
RowsOfRound(hist, gw) == {i \in DOMAIN hist : ToNumber(hist[i].round) = JsNum(gw)}

\* the field holds a value
Reported(field) == field # Undefined /\ field # Null

\* the current-gameweek values of the snapshot are sums over the rows of the
\* target gameweek alone
CurrentGwFromRound(tid) ==
  LET hist == tasks[tid].hist
      rows == RowsOfRound(hist, tasks[tid].key[2])
      snap == tasks[tid].res
      num(x) == IF IsFinite(x) THEN x.v ELSE 0
  IN /\ snap.currentGwXgi =
          sumSet(rows, [i \in DOMAIN hist |-> num(hist[i].expected_goals)
                                               + num(hist[i].expected_assists)])
     /\ snap.currentGwSaves = sumSet(rows, [i \in DOMAIN hist |-> num(hist[i].saves)])
     /\ snap.currentGwXgc =
          sumSet(rows, [i \in DOMAIN hist |-> num(hist[i].expected_goals_conceded)])
     /\ snap.currentGwDc =
          sumSet(rows, [i \in DOMAIN hist |-> sumSet(DcNumbers(hist[i]), [v \in 0..20 |-> v])])

\* C28: for a valid target gameweek the current-gameweek values are computed
\* from the rows of that round alone, and the badge shows a number for
\* expected-goal involvement, saves, expected goals conceded and defensive
\* contribution only when a row of that round reports the value, and "n/a"
\* otherwise.
C28_CurrentGwAvailability ==
  \A tid \in DOMAIN tasks :
    (StatsBuilt(tid) /\ tasks[tid].key[2] > 0) =>
      LET hist == tasks[tid].hist
          rows == RowsOfRound(hist, tasks[tid].key[2])
          texts == badgeTexts(tasks[tid].res)
      IN /\ CurrentGwFromRound(tid)
         /\ texts.xgi # NA => \E i \in rows : Reported(hist[i].expected_goals)
                                               \/ Reported(hist[i].expected_assists)
         /\ texts.saves # NA => \E i \in rows : Reported(hist[i].saves)
         /\ texts.xgc # NA => \E i \in rows : pickXGC(hist[i]) # Null
         /\ texts.dc # NA => \E i \in rows : DcNumbers(hist[i]) # {}

\* the target gameweek is 7 and the history has rows of rounds 1 to 6: the
\* badge shows 0 for expected-goal involvement, saves and expected goals
\* conceded, and "n/a" for defensive contribution
C28_Witness ==
  \E tid \in DOMAIN tasks :
    /\ StatsBuilt(tid)
    /\ tasks[tid].key[2] = 7
    /\ tasks[tid].hist = SixPlayed
    /\ badgeTexts(tasks[tid].res).xgi = JsNum(0)
    /\ badgeTexts(tasks[tid].res).saves = JsNum(0)
    /\ badgeTexts(tasks[tid].res).xgc = JsNum(0)
    /\ badgeTexts(tasks[tid].res).dc = NA


\* every entry of the completed cache m is an entry of m' with the same value
EntriesKept(m, mNext) == \A k \in DOMAIN m : Has(mNext, k) /\ mNext[k] = m[k]

\* C29: an entry of a completed cache (player snapshots, league rows, entry
\* histories, entry transfers, ownership snapshots) is never replaced,
\* changed or removed by a later step.
C29_WriteOnce ==
  [][/\ EntriesKept(cache, cache')
     /\ EntriesKept(leagueDataCache, leagueDataCache')
     /\ EntriesKept(entryHistoryCache, entryHistoryCache')
     /\ EntriesKept(entryTransfersCache, entryTransfersCache')
     /\ EntriesKept(miniLeagueOwnershipCache, miniLeagueOwnershipCache')]_vars

\* two calls of loadPlayerData for one key were both answered, with different
\* histories: the snapshot of one of them is no longer in the cache
C29_Witness ==
  \E t1, t2 \in DOMAIN tasks :
    /\ tasks[t1].fn = "loadPlayerData" /\ tasks[t2].fn = "loadPlayerData"
    /\ tasks[t1].key = tasks[t2].key
    /\ tasks[t1].done /\ ~tasks[t1].failed
    /\ tasks[t2].done /\ ~tasks[t2].failed
    /\ tasks[t1].res # tasks[t2].res
    /\ cache[tasks[t1].key] = tasks[t2].res


\* the value that stands for "no data" in the result of each loader
NoDataOf(fn) ==
  CASE fn = "loadPlayerData" -> NoSnapshot
    [] fn = "loadEntryHistory" -> NullHistory
    [] fn = "loadEntryTransfers" -> <<>>
    [] fn = "loadEntryLeagueData" -> NaRow
    [] fn = "loadMiniLeagueOwnership" -> EmptySnapshot
    [] fn = "loadMyCurrentTeam" -> {}
    [] fn = "loadMyEntryId" -> Null
    [] fn = "loadMyTeamTransfers" -> NoBest

\* the element-summary fetch of task tid fails
PlayerFetchFails(tid) ==
  /\ At(tid, "loadPlayerData", "fetch")
  /\ \E f \in Failures : Step(settlePlayerData(LoaderState, tid, f, 0))

\* C30: a loader whose request is rejected, answered with a non-2xx status or
\* with a body that cannot be parsed resolves its promise with the no-data
\* value of its kind (null, [], the "n/a" row, the empty snapshot, the empty
\* set); a failed element-summary fetch resolves loadPlayerData with null and
\* stores nothing.
C30_NoLoaderRaises ==
  [][/\ \A tid \in DOMAIN tasks' :
          tasks'[tid].failed => tasks'[tid].done /\ tasks'[tid].res = NoDataOf(tasks'[tid].fn)
     /\ \A tid \in DOMAIN tasks :
          PlayerFetchFails(tid) =>
            /\ tasks'[tid].done /\ tasks'[tid].failed
            /\ tasks'[tid].res = NoSnapshot
            /\ cache' = cache]_vars

\* a caller of loadPlayerData holds a promise resolved with null after the
\* fetch failed, and nothing is stored for the key
C30_Witness ==
  \E i \in DOMAIN callers :
    /\ callers[i].fn = "loadPlayerData" /\ callers[i].p.tid # 0
    /\ tasks[callers[i].p.tid].failed
    /\ valueOf(LoaderState, callers[i].p) = NoSnapshot
    /\ ~Has(cache, callers[i].key)

\* a league row was resolved with the "n/a" row after its picks request failed
C30_WitnessRow ==
  \E tid \in DOMAIN tasks :
    tasks[tid].fn = "loadEntryLeagueData" /\ tasks[tid].failed /\ tasks[tid].res = NaRow


\* ---------------------------------------------------------------------
\* A failed entry-history fetch and the league row (loadEntryHistory,
\* computeRemainingTransfers, loadEntryLeagueData)
\* ---------------------------------------------------------------------

\* the entry-history fetch of the row's task failed: loadEntryHistory gave null
HistoryFailed(tid) == valueOf(LoaderState, tasks[tid].aw[1]).isNull

\* C31: when the entry-history fetch of an entry fails, the free-transfer
\* value of that entry's league row is unavailable ("n/a"), not a number.
C31_HistoryFailureUnavailable ==
  \A tid \in DOMAIN tasks :
    (RowBuilt(tid) /\ HistoryFailed(tid))
      => tasks[tid].res.remainingTransfers = NA

\* a row of another entry was built after its history fetch failed, and its
\* free-transfer value is the number the simulation computed on no rows
C31_Witness ==
  \E tid \in DOMAIN tasks :
    /\ RowBuilt(tid) /\ HistoryFailed(tid) /\ ~OwnRow(tid)
    /\ IsFinite(tasks[tid].res.remainingTransfers)
    /\ tasks[tid].res.remainingTransfers = SimulationOf(tid)


(***************************************************************************)
(* The persisted free-transfer record: the transfers view writes it        *)
(* (scanPitchNameBadges, setCachedMyFreeTransfers), loadMyEntryId and the   *)
(* league row of entry 1 read it (getCachedMyFreeTransfers).  The page may  *)
(* name the user's entry in its address or in its navigation link, or not   *)
(* at all; the store may hold a record of an earlier session.               *)
(***************************************************************************)
\* what scrapeFreeTransfersFromTransfersPage returns: null or one of 0..5
ScrapedValues == {Null, JsNum(0), JsNum(2)}

StorageOutcomes == {"ok", "throws"}

StoreStoredInputs ==
  {NoStoredFt,
   [present |-> TRUE, value |-> 4, entryId |-> JsNum(1)],
   [present |-> TRUE, value |-> 5, entryId |-> JsNum(2)]}

StoreHistoryAnswers ==
  {[isNull |-> FALSE,
    current |-> <<[event |-> 1, event_transfers |-> 0, event_transfers_cost |-> 0]>>,
    chips |-> <<>>]}

StoreMyTeamAnswers == {<<1, 0>>}

StorePicksAnswers ==
  {[captain |-> "Salah", active_chip |-> "", event_transfers |-> 0,
    event_transfers_cost |-> 0]}

InitStore ==
  /\ FTIdle /\ MapIdle /\ ScanIdle
  /\ LoadIdleState
  /\ pathEntryId \in {Null, JsNum(1)}
  /\ navEntryId \in {Null, JsNum(1), JsNum(2)}
  /\ localStorageFt \in StoreStoredInputs
  /\ currentEventId = 2
  /\ nextEventId = JsNum(3)

NextStore ==
  \/ \E ft \in ScrapedValues, storage \in StorageOutcomes :
       ScanTransfersView(ft, storage) /\ UNCHANGED <<ftVars, mapVars, scanVars>>
  \/ \E entryId \in Entries :
       CallLoadEntryLeagueData(entryId) /\ UNCHANGED <<ftVars, mapVars, scanVars>>
  \/ \E tid \in DOMAIN tasks : MeFetchSettles(tid) /\ UNCHANGED <<ftVars, mapVars, scanVars>>
  \/ \E tid \in DOMAIN tasks :
       HistoryFetchSettlesWith(tid, StoreHistoryAnswers, {"http"})
         /\ UNCHANGED <<ftVars, mapVars, scanVars>>
  \/ \E tid \in DOMAIN tasks : TransfersFetchSettles(tid) /\ UNCHANGED <<ftVars, mapVars, scanVars>>
  \/ \E tid \in DOMAIN tasks :
       MyTeamFetchSettlesWith(tid, StoreMyTeamAnswers, {"http"})
         /\ UNCHANGED <<ftVars, mapVars, scanVars>>
  \/ \E tid \in DOMAIN tasks : LeagueMyEntryIdSettled(tid) /\ UNCHANGED <<ftVars, mapVars, scanVars>>
  \/ \E tid \in DOMAIN tasks :
       LeaguePicksSettleWith(tid, StorePicksAnswers, {"http"})
         /\ UNCHANGED <<ftVars, mapVars, scanVars>>
  \/ \E tid \in DOMAIN tasks : LeagueAllSettled(tid) /\ UNCHANGED <<ftVars, mapVars, scanVars>>

SpecStore == InitStore /\ [][NextStore]_vars


\* the own entry id as setCachedMyFreeTransfers knows it at the write
KnownOwnId == getMyEntryIdFromNav(LoaderState).ret

C32_WitnessStorageFailure ==
  /\ myFreeTransfersMemory = JsNum(2)
  /\ getCachedMyFreeTransfers(LoaderState).isNull


\* the persisted candidate in the list that the merge of task tid is handed
PersistedCandidate(tid) == mergeCandidates(LoaderState, tasks[tid], Null)[6]

\* the stored record names no entry
NoEntryIdStored == localStorageFt.entryId \in {Undefined, Null}

\* the persisted value is a candidate only for the user's own entry and only
\* when the stored entry id is the entry of the row or none is stored
C33_CandidateOnlyForOwner ==
  [][\A tid \in DOMAIN tasks :
       LeagueAllSettled(tid) =>
         /\ IsFinite(PersistedCandidate(tid)) =>
              /\ tasks[tid].own
              /\ localStorageFt.present
              /\ \/ NoEntryIdStored
                 \/ ToNumber(localStorageFt.entryId) = JsNum(tasks[tid].key[1])
         /\ (/\ localStorageFt.present
             /\ IsFinite(localStorageFt.entryId)
             /\ localStorageFt.entryId # JsNum(tasks[tid].key[1]))
              => PersistedCandidate(tid) = Null]_vars

\* C33: the persisted free-transfer value is a merge candidate only for the
\* user's own entry and only when the entry id stored with it is the entry of
\* the row or no entry id was stored, and it is unavailable with a different
\* stored entry id; a record persisted while the own entry id was unknown
\* reads back with an absent entry id.
C33_AsStated ==
  [][/\ \A tid \in DOMAIN tasks :
          LeagueAllSettled(tid) =>
            /\ IsFinite(PersistedCandidate(tid)) =>
                 /\ tasks[tid].own
                 /\ localStorageFt.present
                 /\ \/ NoEntryIdStored
                    \/ ToNumber(localStorageFt.entryId) = JsNum(tasks[tid].key[1])
            /\ (/\ localStorageFt.present
                /\ IsFinite(localStorageFt.entryId)
                /\ localStorageFt.entryId # JsNum(tasks[tid].key[1]))
                 => PersistedCandidate(tid) = Null
     /\ \A ft \in ScrapedValues :
          (ScanTransfersView(ft, "ok") /\ IsFinite(ft) /\ ~IsFinite(KnownOwnId))
            => getCachedMyFreeTransfers(LoaderState').entryId = Null]_vars

\* a record written while neither myEntryId nor the navigation link named the
\* user's entry reads back with entry id 0
C33_Witness ==
  /\ myEntryId = Null /\ navEntryId = Null
  /\ ~getCachedMyFreeTransfers(LoaderState).isNull
  /\ getCachedMyFreeTransfers(LoaderState).value = 2
  /\ getCachedMyFreeTransfers(LoaderState).entryId = JsNum(0)


\* ---------------------------------------------------------------------
\* loadMyTeamTransfers for two gameweek hints at once
\* ---------------------------------------------------------------------

\* the league-row computation tid has asked for the my-team values of its
\* own entry: operand 3 of its Promise.all is the answer for the current
\* gameweek, operand 4 the answer for the next
AskedMyTeam(tid) ==
  /\ tasks[tid].fn = "loadEntryLeagueData"
  /\ tasks[tid].own
  /\ Len(tasks[tid].aw) >= 4

HintOf(tid, i) == IF i = 3 THEN JsNum(tasks[tid].key[2]) ELSE nextEventId

\* C34: loadMyTeamTransfers called for two different gameweek hints while the
\* first call is in flight hands each caller the value computed from the
\* request of its own hint and stores each result under the key of its own
\* hint; the answer for the next gameweek is never the computation of the
\* current gameweek.
C34_OwnHintResult ==
  \A tid \in DOMAIN tasks :
    AskedMyTeam(tid) =>
      /\ \A i \in {3, 4} :
           LET p == tasks[tid].aw[i] IN
           p.tid # 0 =>
             /\ tasks[p.tid].fn = "loadMyTeamTransfers"
             /\ tasks[p.tid].cacheKey = myTeamCacheKey(HintOf(tid, i))
             /\ tasks[p.tid].done => Has(myTeamTransfersCache, myTeamCacheKey(HintOf(tid, i)))
      /\ tasks[tid].aw[3].tid # 0 => tasks[tid].aw[4] # tasks[tid].aw[3]

\* the row of the own entry was built with the answer for gameweek 2 as its
\* next-gameweek candidate, and nothing was requested or stored for gameweek 3
C34_Witness ==
  \E tid \in DOMAIN tasks :
    /\ RowBuilt(tid) /\ AskedMyTeam(tid)
    /\ tasks[tid].aw[3].tid # 0
    /\ tasks[tid].aw[4] = tasks[tid].aw[3]
    /\ ~valueOf(LoaderState, tasks[tid].aw[4]).isNull
    /\ ~Has(myTeamTransfersCache, myTeamCacheKey(nextEventId))
    /\ ~Has(fetchCount, <<"loadMyTeamTransfers", myTeamKey(tasks[tid].key[1], nextEventId)>>)


\* ---------------------------------------------------------------------
\* Candidate sources without a value
\* ---------------------------------------------------------------------
TransfersPageRequests ==
  MapGetOr(fetchCount, <<"loadMyFreeTransfersFromTransfersHtml", <<0, 0>>>>, 0)

\* C35: a candidate source that produced no value enters the merge of the
\* own entry as unavailable and never as the number 0: the remembered value
\* when nothing was remembered, and the transfers-page value when the page was
\* never fetched (with an empty cache the loader issues the fetch and does not
\* answer 0).
C35_NoValueUnavailable ==
  \A tid \in DOMAIN tasks :
    (RowBuilt(tid) /\ OwnRow(tid)) =>
      /\ myFreeTransfersMemory = Null => PassedCandidates(tid)[5] = Null
      /\ myTransfersPageFtCache = Null =>
           /\ PassedCandidates(tid)[7] # JsNum(0)
           /\ TransfersPageRequests >= 1

\* the row of the own entry was built with nothing remembered and the
\* transfers page never requested, and both candidates were handed to the
\* merge as 0
C35_Witness ==
  \E tid \in DOMAIN tasks :
    /\ RowBuilt(tid) /\ OwnRow(tid)
    /\ myFreeTransfersMemory = Null /\ myTransfersPageFtCache = Null
    /\ TransfersPageRequests = 0
    /\ PassedCandidates(tid)[5] = JsNum(0)
    /\ PassedCandidates(tid)[7] = JsNum(0)


\* ---------------------------------------------------------------------
\* Pending entries and running computations
\* ---------------------------------------------------------------------
PendingMaps ==
  <<leagueDataPending, entryHistoryPending, entryTransfersPending,
    miniLeagueOwnershipPending, myCurrentTeamPending>>

PendingSlots == <<myEntryIdPending, myTeamTransfersPending, myTransfersPageFtPending>>

\* the single-flight domains other than loadMyEntryId hold no pending entry
\* of a computation that has finished
C36_OtherDomainsClean ==
  /\ \A m \in 1..Len(PendingMaps) :
       \A k \in DOMAIN PendingMaps[m] : ~tasks[PendingMaps[m][k]].done
  /\ \A s \in 2..Len(PendingSlots) :
       PendingSlots[s] # 0 => ~tasks[PendingSlots[s]].done

\* C36: in every single-flight domain a pending entry exists for a key only
\* while a computation for that key is running; after loadMyEntryId has
\* settled through the URL-path, navigation-hint or persisted-record path,
\* myEntryIdPending is null.
C36_NoStalePending ==
  /\ \A m \in 1..Len(PendingMaps) :
       \A k \in DOMAIN PendingMaps[m] : ~tasks[PendingMaps[m][k]].done
  /\ \A s \in 1..Len(PendingSlots) :
       PendingSlots[s] # 0 => ~tasks[PendingSlots[s]].done

\* loadMyEntryId took the id from the page address without suspending, and
\* myEntryIdPending still holds the promise of that finished computation
C36_Witness ==
  /\ myEntryIdPending # 0
  /\ tasks[myEntryIdPending].fn = "loadMyEntryId"
  /\ tasks[myEntryIdPending].done
  /\ tasks[myEntryIdPending].res = pathEntryId
  /\ myEntryId = pathEntryId
  /\ MeRequests = 0


\* ---------------------------------------------------------------------
\* The own entry id of the session
\* ---------------------------------------------------------------------

\* C37: whenever myEntryId is set it is a positive entry id, and once set it
\* never changes in the session; a record persisted by
\* setCachedMyFreeTransfers while the own entry id was unknown never makes a
\* later loadMyEntryId adopt 0 as the own entry id.
C37_OwnIdPositiveStable ==
  [][/\ IsFinite(myEntryId') => myEntryId'.v > 0
     /\ IsFinite(myEntryId) => myEntryId' = myEntryId]_vars

\* once set, myEntryId keeps its value
C37_OwnIdStable == [][IsFinite(myEntryId) => myEntryId' = myEntryId]_vars

\* neither the page address nor the navigation link names the entry, the
\* stored record was written by this session with entry id 0, and
\* loadMyEntryId has resolved with 0 without asking /me
C37_Witness ==
  /\ pathEntryId = Null /\ navEntryId = Null
  /\ myEntryId = JsNum(0)
  /\ localStorageFt.present /\ localStorageFt.entryId = JsNum(0)
  /\ MeRequests = 0
  /\ \E tid \in DOMAIN tasks :
       /\ tasks[tid].fn = "loadMyEntryId"
       /\ tasks[tid].done /\ tasks[tid].res = JsNum(0)


(***************************************************************************)
(* loadMiniLeagueOwnership when the standings name an entry twice          *)
(* (loadLeagueStandingsEntries concatenates the pages as they come and     *)
(* removes no duplicate): specification and properties.                    *)
(***************************************************************************)
DupStandingsAnswers == {<<1, 1>>, <<1, 2>>}

NextDup ==
  \/ CallLoadMiniLeagueOwnership(currentEventId) /\ UNCHANGED <<ftVars, mapVars, scanVars>>
  \/ \E tid \in DOMAIN tasks :
       OwnershipMyEntryIdSettled(tid) /\ UNCHANGED <<ftVars, mapVars, scanVars>>
  \/ \E tid \in DOMAIN tasks :
       StandingsPageSettlesWith(tid, DupStandingsAnswers, {"http"})
         /\ UNCHANGED <<ftVars, mapVars, scanVars>>
  \/ \E tid \in DOMAIN tasks :
       RivalPicksSettleWith(tid, OwnPicksAnswers, Failures)
         /\ UNCHANGED <<ftVars, mapVars, scanVars>>

SpecDup == InitOwn /\ [][NextDup]_vars

\* a <= b for percentages kept as fractions with positive denominators
PctAtMost(pct, n) == pct.num <= n * pct.den

\* C38: in every non-empty ownership snapshot totalRivals is the number of
\* entries of rivalTeams; for every player tripleCaptainedBy is a subset of
\* captainedBy, captainedBy of ownedBy, and ownedBy of the keys of rivalTeams;
\* ownershipPct lies in 0..100 and eoPct is at most 300.  This holds also when
\* the standings list names an entry more than once.
C38_SnapshotStructure ==
  \A tid \in DOMAIN tasks :
    (SnapshotBuilt(tid) /\ tasks[tid].res.totalRivals > 0) =>
      LET snap == tasks[tid].res IN
      /\ snap.totalRivals = Cardinality(DOMAIN snap.rivalTeams)
      /\ \A id \in DOMAIN snap.playerOwnership :
           LET data == snap.playerOwnership[id] IN
           /\ data.tripleCaptainedBy \subseteq data.captainedBy
           /\ data.captainedBy \subseteq data.ownedBy
           /\ data.ownedBy \subseteq DOMAIN snap.rivalTeams
           /\ data.ownershipPct.num >= 0 /\ PctAtMost(data.ownershipPct, 100)
           /\ PctAtMost(data.eoPct, 300)

\* the sets and the percentage bounds of the claim, without the count
C38_SetsAndBounds ==
  \A tid \in DOMAIN tasks :
    (SnapshotBuilt(tid) /\ tasks[tid].res.totalRivals > 0) =>
      LET snap == tasks[tid].res IN
      \A id \in DOMAIN snap.playerOwnership :
        LET data == snap.playerOwnership[id] IN
        /\ data.tripleCaptainedBy \subseteq data.captainedBy
        /\ data.captainedBy \subseteq data.ownedBy
        /\ data.ownedBy \subseteq DOMAIN snap.rivalTeams
        /\ data.ownershipPct.num >= 0 /\ PctAtMost(data.ownershipPct, 100)
        /\ PctAtMost(data.eoPct, 300)

\* the standings named entry 1 twice and both picks requests were answered:
\* the snapshot counts two rivals, holds one team, and gives a player that the
\* one rival owns 50 percent
C38_Witness ==
  \E tid \in DOMAIN tasks :
    /\ SnapshotBuilt(tid)
    /\ tasks[tid].res.totalRivals = 2
    /\ DOMAIN tasks[tid].res.rivalTeams = {1}
    /\ \E id \in DOMAIN tasks[tid].res.playerOwnership :
         /\ tasks[tid].res.playerOwnership[id].ownedBy = {1}
         /\ IsShareOf(tasks[tid].res.playerOwnership[id].ownershipPct, 1, 2)


(***************************************************************************)
(* computeRemainingTransfers for consecutive target gameweeks:             *)
(* specification and properties.  The histories have up to two rows in the *)
(* first three gameweeks, so that the row of the target gameweek and a row *)
(* before it occur together.                                               *)
(***************************************************************************)
StepRows == [event : 1..3, event_transfers : {0, 1, 2}, event_transfers_cost : {0, 4}]

StepChips == [event : 1..3, name : {"wildcard"}]

StepHistoryInputs ==
  [isNull : {FALSE}, current : SeqsUpTo(StepRows, 2), chips : SeqsUpTo(StepChips, 1)]

InitStep ==
  /\ MapIdle /\ ScanIdle /\ LoadIdle
  /\ ftHistoryData \in StepHistoryInputs
  /\ ftEventId = Unset
  /\ ftCurrentEventData = NoCurrentEventData
  /\ ftLoopEnd = Unset
  /\ ftReturn = Unset

SpecStep == InitStep /\ [][NextFT]_vars

\* the live override of the call agrees with the history of its target
\* gameweek: the gameweek has a row with the live transfers and cost, and the
\* chip log names the live chip for it (or none, as the live override)
LiveAgrees ==
  LET rows == currentRowsOf(ftHistoryData) IN
  /\ rowByEventHas(rows, ftEventId.v)
  /\ rowByEvent(rows, ftEventId.v).event_transfers = ftCurrentEventData.eventTransfers
  /\ rowByEvent(rows, ftEventId.v).event_transfers_cost = ftCurrentEventData.eventTransfersCost
  /\ chipByEvent(chipsOf(ftHistoryData), ftEventId.v) = ftCurrentEventData.activeChipRaw

\* ftStart of the gameweek after the target in the simulation that targets it
\* with live override live
NextStartWith(live) ==
  ftStartOf(ftEventId.v + 1,
            ftEndAfter(ftHistoryData, ftEventId.v + 1, live, ftEventId.v))

\* C39 as stated: for every gameweek g >= 1 whose live override agrees with
\* its history row, the simulation that targets g + 1 enters gameweek g + 1
\* with ftStart = min(5, R + 1), R being the value returned for target g.
C39_AsStated ==
  (ftCalled /\ ftTargetValid /\ LiveAgrees) =>
    \A live \in CurrentEventInputs :
      NextStartWith(live) = Min(5, ftReturn.v + 1)

\* C39 (amended): for every gameweek g >= 1 whose live override agrees with
\* its history row, the simulation that targets g + 1 enters gameweek g + 1
\* with ftStart = min(5, E + 1), E being the simulated value of gameweek g
\* before the stale-data guard; that is min(5, R + 1) for the returned value R
\* except when the guard returned 1 for a simulated 0, where ftStart is 1.
C39_StepConsistency ==
  (ftCalled /\ ftTargetValid /\ LiveAgrees) =>
    \A live \in CurrentEventInputs :
      /\ NextStartWith(live) = Min(5, ftLoopEnd.v + 1)
      /\ NextStartWith(live) = (IF StaleCase THEN 1 ELSE Min(5, ftReturn.v + 1))

\* gameweek 1 and gameweek 2 each have a row with one unpaid transfer: the
\* call for gameweek 2 returns 1 by the guard, and gameweek 3 is entered with 1
C39_Witness ==
  /\ ftCalled /\ ftTargetValid /\ LiveAgrees
  /\ ftEventId.v = 2
  /\ StaleCase
  /\ ftReturn = JsNum(1)
  /\ \A live \in CurrentEventInputs : NextStartWith(live) = 1

\* without the guard: two banked transfers after gameweek 2, three on entering
\* gameweek 3
C39_WitnessNoGuard ==
  /\ ftCalled /\ ftTargetValid /\ LiveAgrees
  /\ ftEventId.v = 2
  /\ ~StaleCase
  /\ ftReturn = JsNum(2)
  /\ \A live \in CurrentEventInputs : NextStartWith(live) = 3


\* ---------------------------------------------------------------------
\* mapWithConcurrency after a worker has thrown
\* ---------------------------------------------------------------------
MapHasSettled == mapSettled \in {"resolved", "rejected"}

\* C40: mapWithConcurrency settles only after every worker it started has
\* finished: once the returned promise has settled, also by a worker that
\* threw, no worker of the call is running and no further item is started.
C40_SettlesAfterAllWorkers ==
  [][/\ MapHasSettled' => \A r \in 1..Len(mapRunners') : mapRunners'[r].st # "working"
     /\ MapHasSettled => mapCalls' = mapCalls]_vars

\* a call that ends without a thrown worker settles when its last worker has
\* finished; its queue is empty then when a runner was created
C40_ResolvedAfterAllWorkers ==
  mapSettled = "resolved" =>
    /\ \A r \in 1..Len(mapRunners) : mapRunners[r].st = "fulfilled"
    /\ Len(mapRunners) > 0 => mapQueue = <<>>

\* the returned promise has rejected while another worker of the call is
\* running and an item is still queued for it
C40_Witness ==
  /\ mapSettled = "rejected"
  /\ \E r \in 1..Len(mapRunners) : mapRunners[r].st = "working"
  /\ Len(mapQueue) > 0

====
